---------------------------- MODULE Spec2Model ----------------------------
(***************************************************************************)
(* telepress: the publishing pipeline of TelegraphPublisher (core.py) and  *)
(* the batch image upload of ImageUploader (uploader.py).                  *)
(*                                                                         *)
(* Texts are run-length encoded: a string is a sequence of runs            *)
(* [c |-> character, n |-> count], adjacent runs holding different         *)
(* characters, so that documents longer than SAFE_CHUNK_SIZE characters    *)
(* are represented exactly.  "NL" is the newline character, "SP" a space.  *)
(* Durations are in milliseconds.                                          *)
(***************************************************************************)
EXTENDS Integers, Sequences, FiniteSets, TLC

(***************************************************************************)
(* Bounds of the model.                                                    *)
(***************************************************************************)
\* publish calls made through one session
MaxPublishes == 2
\* remote calls (create_page / edit_page) that fail during one session
MaxFailures == 5

(***************************************************************************)
(* Program constants.                                                      *)
(***************************************************************************)
SAFE_CHUNK_SIZE == 10000
CREATE_MAX_RETRIES == 5
LINK_MAX_RETRIES == 3
INDEX_FULL_BELOW == 50
CREATE_FIXED_DELAY_MS == 2000
LINK_FIXED_DELAY_MS == 1000
CREATE_PACING_MS == 500
LINK_PACING_MS == 300

None == "none"

(***************************************************************************)
(* Strings.                                                                *)
(***************************************************************************)
Run(ch, k) == <<[c |-> ch, n |-> k]>>

RECURSIVE StrLen(_)
StrLen(s) == IF s = <<>> THEN 0 ELSE s[1].n + StrLen(Tail(s))

\* s + t
StrCat(s, t) ==
    IF s = <<>> THEN t
    ELSE IF t = <<>> THEN s
    ELSE IF s[Len(s)].c = t[1].c
         THEN SubSeq(s, 1, Len(s) - 1)
              \o Run(t[1].c, s[Len(s)].n + t[1].n)
              \o Tail(t)
         ELSE s \o t

\* s[:k]
RECURSIVE StrTake(_, _)
StrTake(s, k) ==
    IF k <= 0 \/ s = <<>> THEN <<>>
    ELSE IF s[1].n <= k THEN StrCat(<<s[1]>>, StrTake(Tail(s), k - s[1].n))
    ELSE Run(s[1].c, k)

\* s[k:]
RECURSIVE StrDrop(_, _)
StrDrop(s, k) ==
    IF k <= 0 \/ s = <<>> THEN s
    ELSE IF s[1].n <= k THEN StrDrop(Tail(s), k - s[1].n)
    ELSE Run(s[1].c, s[1].n - k) \o Tail(s)

\* "".join(parts)
RECURSIVE StrJoin(_)
StrJoin(parts) ==
    IF parts = <<>> THEN <<>> ELSE StrCat(parts[1], StrJoin(Tail(parts)))

\* s.strip() == "" : only whitespace
IsBlank(s) == \A k \in 1..Len(s) : s[k].c \in {"NL", "SP"}

\* s.splitlines(keepends=True), cur being the line read so far
RECURSIVE SplitAcc(_, _)
SplitAcc(s, cur) ==
    IF s = <<>> THEN (IF cur = <<>> THEN <<>> ELSE <<cur>>)
    ELSE IF s[1].c = "NL"
         THEN <<StrCat(cur, Run("NL", 1))>>
              \o SplitAcc(IF s[1].n = 1 THEN Tail(s)
                          ELSE Run("NL", s[1].n - 1) \o Tail(s), <<>>)
         ELSE SplitAcc(Tail(s), StrCat(cur, <<s[1]>>))

splitlines(s) == SplitAcc(s, <<>>)

(***************************************************************************)
(* The text chunker of publish_markdown.                                   *)
(* st = [chunks, current_chunk, current_len]                               *)
(***************************************************************************)
\* mutant: only the first line of current_chunk reaches the chunk
FlushChunk_FirstLine(st) ==
    [chunks |-> Append(st.chunks, st.current_chunk[1]),
     current_chunk |-> <<>>,
     current_len |-> 0]

FlushChunk(st) ==
    [chunks |-> Append(st.chunks, StrJoin(st.current_chunk)),
     current_chunk |-> <<>>,
     current_len |-> 0]

\* mutant: an over-long line is cut once and what is left of it is dropped
ForceSplit_Truncate(line, st) ==
    IF StrLen(line) > SAFE_CHUNK_SIZE
    THEN [line |-> StrTake(line, SAFE_CHUNK_SIZE),
          st |-> IF st.current_chunk # <<>> THEN FlushChunk(st) ELSE st]
    ELSE [line |-> line, st |-> st]

\* mutant: what is left of the line starts at the last character of the piece cut
RECURSIVE ForceSplit_Overlap(_, _)
ForceSplit_Overlap(line, st) ==
    IF StrLen(line) > SAFE_CHUNK_SIZE
    THEN LET s1 == IF st.current_chunk # <<>> THEN FlushChunk(st) ELSE st
             s2 == [s1 EXCEPT !.chunks = Append(@, StrTake(line, SAFE_CHUNK_SIZE))]
         IN  ForceSplit_Overlap(StrDrop(line, SAFE_CHUNK_SIZE - 1), s2)
    ELSE [line |-> line, st |-> st]

\* while len(line) > SAFE_CHUNK_SIZE: ...
RECURSIVE ForceSplit(_, _)
ForceSplit(line, st) ==
    IF StrLen(line) > SAFE_CHUNK_SIZE
    THEN LET s1 == IF st.current_chunk # <<>> THEN FlushChunk(st) ELSE st
             s2 == [s1 EXCEPT !.chunks = Append(@, StrTake(line, SAFE_CHUNK_SIZE))]
         IN  ForceSplit(StrDrop(line, SAFE_CHUNK_SIZE), s2)
    ELSE [line |-> line, st |-> st]

\* mutant: the chunk is closed as soon as the next line would fill it to the limit
RECURSIVE ChunkLines_FlushAtLimit(_, _)
ChunkLines_FlushAtLimit(lines, st) ==
    IF lines = <<>>
    THEN (IF st.current_chunk # <<>> THEN FlushChunk(st).chunks ELSE st.chunks)
    ELSE LET fs == ForceSplit(lines[1], st)
             line == fs.line
             s1 == fs.st
             s2 == IF s1.current_len + StrLen(line) >= SAFE_CHUNK_SIZE
                      /\ s1.current_chunk # <<>>
                   THEN FlushChunk(s1) ELSE s1
             s3 == [s2 EXCEPT !.current_chunk = Append(@, line),
                              !.current_len = @ + StrLen(line)]
         IN  ChunkLines_FlushAtLimit(Tail(lines), s3)

\* for line in content.splitlines(keepends=True): ...
RECURSIVE ChunkLines(_, _)
ChunkLines(lines, st) ==
    IF lines = <<>>
    THEN (IF st.current_chunk # <<>> THEN FlushChunk(st).chunks ELSE st.chunks)
    ELSE LET fs == ForceSplit(lines[1], st)
             line == fs.line
             s1 == fs.st
             s2 == IF s1.current_len + StrLen(line) > SAFE_CHUNK_SIZE
                      /\ s1.current_chunk # <<>>
                   THEN FlushChunk(s1) ELSE s1
             s3 == [s2 EXCEPT !.current_chunk = Append(@, line),
                              !.current_len = @ + StrLen(line)]
         IN  ChunkLines(Tail(lines), s3)

\* mutant: the text is cut every SAFE_CHUNK_SIZE characters, whatever its lines
RECURSIVE split_chunks_ByLength(_)
split_chunks_ByLength(content) ==
    IF StrLen(content) > SAFE_CHUNK_SIZE
    THEN <<StrTake(content, SAFE_CHUNK_SIZE)>>
         \o split_chunks_ByLength(StrDrop(content, SAFE_CHUNK_SIZE))
    ELSE <<content>>

split_chunks(content) ==
    IF StrLen(content) > SAFE_CHUNK_SIZE
    THEN ChunkLines(splitlines(content),
                    [chunks |-> <<>>, current_chunk |-> <<>>, current_len |-> 0])
    ELSE <<content>>

(***************************************************************************)
(* Documents handed to publish_markdown (through publish or publish_text). *)
(***************************************************************************)
Title1 == Run("t", 1)
Title2 == Run("u", 1)

\* one short line: one page
DocSmall == [content |-> Run("a", 12), title |-> Title1]
\* two lines of 6001 characters: two pages
DocTwo == [content |-> Run("a", 6000) \o Run("NL", 1) \o Run("b", 6000) \o Run("NL", 1),
           title |-> Title1]
\* one unbroken line of 25000 characters: force-split into three pages
DocLong == [content |-> Run("a", 25000), title |-> Title2]
\* three lines of 6001 characters, 18003 in all: three pages, no two lines fit one
DocThree == [content |-> Run("a", 6000) \o Run("NL", 1) \o Run("b", 6000) \o Run("NL", 1)
                         \o Run("c", 6000) \o Run("NL", 1),
             title |-> Title2]
\* whitespace only: rejected
DocBlank == [content |-> Run("SP", 2) \o Run("NL", 1), title |-> Title1]

Docs == {DocSmall, DocTwo, DocLong, DocBlank}

\* documents of several pages none of whose lines is longer than a chunk
LinedDocs == {DocTwo, DocThree}

(***************************************************************************)
(* Texts for the chunker: up to MaxLines lines, line k written in its own   *)
(* letter, every line ended by a newline except, possibly, the last.        *)
(***************************************************************************)
MaxLines == 3

\* characters of a line before its newline: blank, short, half a chunk, one
\* short of the chunk size (the chunk size with its newline), the chunk size
\* (one over with its newline), one short of two chunks, two chunks and one,
\* three chunks
LineBodies == {0, 2999, 4999, 9999, 10000, 19999, 20001, 30000}

Letter(k) == <<"a", "b", "c", "d", "e">>[k]

\* the text of the lines whose bodies are given, `ended` telling whether the last
\* line has its newline
RECURSIVE TextOf(_, _, _)
TextOf(bodies, k, ended) ==
    IF k > Len(bodies) THEN <<>>
    ELSE StrCat(StrCat(IF bodies[k] > 0 THEN Run(Letter(k), bodies[k]) ELSE <<>>,
                       IF k < Len(bodies) \/ ended THEN Run("NL", 1) ELSE <<>>),
                TextOf(bodies, k + 1, ended))

Texts ==
    {TextOf(bodies, 1, ended) :
        bodies \in UNION {[1..n -> LineBodies] : n \in 1..MaxLines}, ended \in BOOLEAN}

(***************************************************************************)
(* Error messages of the remote service: sequences of tokens, a token      *)
(* being a word [w |-> text, v |-> 0] or a decimal integer                 *)
(* [w |-> "#", v |-> value].                                               *)
(***************************************************************************)
Word(t) == [w |-> t, v |-> 0]
Num(k) == [w |-> "#", v |-> k]

\* "Flood control exceeded. Retry in 7 seconds"
MsgFloodHint == <<Word("Flood control"), Word("exceeded."), Word("Retry in"), Num(7), Word("seconds")>>
\* "Retry in 7 seconds"
MsgHintOnly == <<Word("Retry in"), Num(7), Word("seconds")>>
\* "Server error"
MsgOther == <<Word("Server error")>>

Msgs == {MsgFloodHint, MsgHintOnly, MsgOther}

NoMatch == -1

\* 'Flood control' in error_msg
HasFloodControl(msg) == \E k \in 1..Len(msg) : msg[k].w = "Flood control"

\* re.search(r'Retry in (\d+)', error_msg): int(match.group(1)), or NoMatch
RetryInMatch(msg) ==
    LET hits == {k \in 1..(Len(msg) - 1) : msg[k].w = "Retry in" /\ msg[k + 1].w = "#"}
    IN  IF hits = {} THEN NoMatch
        ELSE msg[(CHOOSE k \in hits : \A j \in hits : k <= j) + 1].v

\* mutant: the hint is used as it stands, without the extra second
CreateBackoff_NoExtraSecond(msg) ==
    IF HasFloodControl(msg) /\ RetryInMatch(msg) # NoMatch
    THEN RetryInMatch(msg) * 1000
    ELSE CREATE_FIXED_DELAY_MS

\* the wait of publish_markdown after a failed create_page, attempts remaining
CreateBackoff(msg) ==
    IF HasFloodControl(msg) /\ RetryInMatch(msg) # NoMatch
    THEN (RetryInMatch(msg) + 1) * 1000
    ELSE CREATE_FIXED_DELAY_MS

(***************************************************************************)
(* Fingerprint cache.                                                      *)
(***************************************************************************)
NoKey == <<>>
NoUrl == <<>>
Url(path) == <<"https://telegra.ph/", path>>

\* _content_hash: the digest is identified with the text it digests
content_hash(text) == <<"sha256">> \o text

\* mutant: the fingerprint is computed whatever skip_duplicate says
ContentKey_Always(d, skip) == content_hash(StrCat(d.content, d.title))

\* mutant: the fingerprint tells the content from the title
ContentKey_Pair(d, skip) ==
    IF skip THEN content_hash(d.content \o Run("SEP", 1) \o d.title) ELSE NoKey

\* content_key = _content_hash(content + title) if self.skip_duplicate else None
ContentKey(d, skip) ==
    IF skip THEN content_hash(StrCat(d.content, d.title)) ELSE NoKey

\* a table is a set of entries [key, url], at most one per key
\* mutant: the duplicate check never finds the fingerprint
InTable_Never(table, key) == FALSE

InTable(table, key) == \E e \in table : e.key = key
Lookup(table, key) == (CHOOSE e \in table : e.key = key).url
\* mutant: the entry is never written
Store_Dropped(table, key, url) == table

Store(table, key, url) ==
    {e \in table : e.key # key} \cup {[key |-> key, url |-> url]}

\* the cache file: missing, unparsable, or holding a table
FileMissing == [state |-> "missing", table |-> {}]
FileCorrupt == [state |-> "corrupt", table |-> {}]
FileOf(table) == [state |-> "ok", table |-> table]

\* an entry written by an earlier session
OldEntry == [key |-> content_hash(StrCat(DocSmall.content, DocSmall.title)), url |-> Url(0)]

InitialCacheFiles == {FileMissing, FileCorrupt, FileOf({OldEntry})}

_load_cache(file) == IF file.state = "ok" THEN file.table ELSE {}

\* _save_cache: the write succeeds, cannot open the file, or fails half-way
_save_cache(file, table, how) ==
    CASE how = "written" -> FileOf(table)
      [] how = "unopened" -> file
      [] OTHER -> FileCorrupt

SaveOutcomes == {"written", "unopened", "truncated"}

(***************************************************************************)
(* Pages.                                                                  *)
(***************************************************************************)
\* a content node
Node(tag, href, label, body) == [tag |-> tag, href |-> href, label |-> label, body |-> body]

\* self.converter.convert(chunk_text): opaque, one paragraph holding the text
convert(chunk_text) == <<Node("p", NoUrl, 0, chunk_text)>>

\* page_title
\* mutant: the part suffix is added to a single page as well
PageTitle_Always(title, part_num, total_parts) == <<title, part_num, total_parts>>

PageTitle(title, part_num, total_parts) ==
    IF total_parts > 1 THEN <<title, part_num, total_parts>> ELSE <<title>>

\* the navigation nodes _link_pages builds for page i (1-based) of pages_info
RECURSIVE IndexNodes(_, _, _)
IndexNodes(pages, i, p) ==
    IF p > Len(pages) THEN <<>>
    ELSE <<IF p = i THEN Node("b", NoUrl, pages[p].part_num, <<>>)
           ELSE Node("a", pages[p].url, pages[p].part_num, <<>>)>>
         \o IndexNodes(pages, i, p + 1)

\* mutant: the links of page i point at page i itself
NavNodes_Self(pages, i) ==
    LET prev == IF i > 1 THEN <<Node("prev", pages[i].url, 0, <<>>)>> ELSE <<>>
        next == IF i < Len(pages) THEN <<Node("next", pages[i].url, 0, <<>>)>> ELSE <<>>
    IN  prev \o next \o <<Node("index", NoUrl, 0, <<>>), Node("b", NoUrl, pages[i].part_num, <<>>)>>

\* mutant: the two links are built the wrong way round
NavNodes_Swapped(pages, i) ==
    LET total_parts == Len(pages)
        prev == IF i < total_parts THEN <<Node("prev", pages[i + 1].url, 0, <<>>)>> ELSE <<>>
        next == IF i > 1 THEN <<Node("next", pages[i - 1].url, 0, <<>>)>> ELSE <<>>
        index == IF total_parts < INDEX_FULL_BELOW
                 THEN IndexNodes(pages, i, 1)
                 ELSE <<Node("of", NoUrl, pages[i].part_num, <<>>)>>
    IN  prev \o next \o <<Node("index", NoUrl, 0, <<>>)>> \o index

NavNodes(pages, i) ==
    LET total_parts == Len(pages)
        prev == IF i > 1 THEN <<Node("prev", pages[i - 1].url, 0, <<>>)>> ELSE <<>>
        next == IF i < total_parts THEN <<Node("next", pages[i + 1].url, 0, <<>>)>> ELSE <<>>
        index == IF total_parts < INDEX_FULL_BELOW
                 THEN IndexNodes(pages, i, 1)
                 ELSE <<Node("of", NoUrl, pages[i].part_num, <<>>)>>
    IN  prev \o next \o <<Node("index", NoUrl, 0, <<>>)>> \o index

\* new_content = info['content'] + [{'tag': 'hr'}] + nav_nodes
LinkedContent(pages, i) ==
    pages[i].content \o <<Node("hr", NoUrl, 0, <<>>)>> \o NavNodes(pages, i)

(***************************************************************************)
(* State.                                                                  *)
(***************************************************************************)
VARIABLES
    \* TelegraphPublisher: self.skip_duplicate, self._cache, and CACHE_FILE
    skip_duplicate, cache, cacheFile,
    \* publish_markdown in progress: where it is, its document and locals
    \* (pages_info: of the publish in progress, or else of the latest one)
    pc, doc, content_key, chunks, idx, attempt, pages_info,
    \* _link_pages in progress: page being linked, attempt, success, failed_links
    link_idx, link_attempt, failed_links,
    \* the remote service: pages created so far, the last call and its outcome
    nextPage, lastCall,
    \* time.sleep since the last remote call (0: none)
    lastSleep,
    \* create_page and edit_page calls issued by this publish, and the pages whose
    \* edit succeeded
    nCreate, nEdit, editDone,
    \* pages edit_page was called for, by the publish in progress or else the latest
    editTried,
    \* publish calls that have returned or raised, in order, and the latest in full
    hist, last,
    \* failed remote calls so far
    failures

\* ImageUploader.upload_batch in progress
VARIABLES
    \* the calling thread: idle, running (tasks submitted), returned, raised
    bpc,
    \* arguments: number of paths (paths are 1..nPaths), retries, auto_compress,
    \* max_workers, stop_on_error, progress_callback (none, ok, raises)
    nPaths, retries, auto_compress, workers, stop_on_error, progress_callback,
    \* the executor's tasks, one per path: pending, running or done, what
    \* upload_safe gave back
    task,
    \* futures as_completed has yielded
    yielded,
    \* locals: should_stop, completed, batch_result
    should_stop, completed, batch_result,
    \* tasks a worker picked up after should_stop was set
    startedAfterStop,
    \* calls of the remote upload_file, of compress_image_to_size, of the callback
    remoteCalls, compressCalls, callbackCalls,
    \* some task so far found its file missing
    missingSeen,
    \* paths whose compression gave back a temp file that still exists
    temp_files,
    \* the list of paths of the batch (task t uploads paths[t]), and the argument of
    \* retry_failed when the batch was started by it
    paths, prev

\* compress_image_to_size called on its own
VARIABLES
    \* idle or done, the arguments, what came back
    cpc, image, max_size, compressed,
    \* _upload_with_retry called on its own: where its loop is, its arguments (ms), its
    \* locals attempt and delay, the upload_file calls made and the sleeps slept
    retry_loop,
    \* two sessions of two processes over one cache file: the file, each session's
    \* position, table, document and returned URL, the sessions in the order their
    \* saves ended, and the pages the remote service has created
    peers

imageVars == <<cpc, image, max_size, compressed, retry_loop, peers>>

batchVars == <<bpc, nPaths, retries, auto_compress, workers, stop_on_error,
               progress_callback, task, yielded, should_stop, completed, batch_result,
               startedAfterStop, remoteCalls, compressCalls, callbackCalls, missingSeen,
               temp_files, paths, prev>>

sessionVars == <<skip_duplicate, cache, cacheFile, pc, doc, content_key, chunks, idx,
                 attempt, pages_info, link_idx, link_attempt, failed_links, nextPage,
                 lastCall, lastSleep, nCreate, nEdit, editDone, editTried, hist, last,
                 failures>>

NoDoc == [content |-> <<>>, title |-> <<>>]
NoCall == [op |-> "none", part |-> 0, ok |-> TRUE, msg |-> <<>>, path |-> 0,
           title |-> <<>>, content |-> <<>>]

\* what a publish call gave back: a URL, or the error it raised
Returned(kind, url) ==
    [kind |-> kind, url |-> url, part |-> 0, total |-> 0, attempts |-> 0,
     published |-> 0, first |-> NoUrl]

\* mutant: the error does not say what was published
CreateAborted_Lost(part_num, total_parts, pages) ==
    [kind |-> "RuntimeError", url |-> NoUrl, part |-> part_num, total |-> total_parts,
     attempts |-> CREATE_MAX_RETRIES, published |-> 0, first |-> NoUrl]

\* RuntimeError("Failed to publish Part {part}/{total} after {n} attempts: {e}\n
\*   Successfully published: {len(pages_info)} pages. First page: {url or 'none'}")
CreateAborted(part_num, total_parts, pages) ==
    [kind |-> "RuntimeError", url |-> NoUrl, part |-> part_num, total |-> total_parts,
     attempts |-> CREATE_MAX_RETRIES, published |-> Len(pages),
     first |-> IF pages # <<>> THEN pages[1].url ELSE NoUrl]

HistEntry(d, ret, creates) ==
    [doc |-> d, kind |-> ret.kind, url |-> ret.url, creates |-> creates]

\* a finished publish: its outcome, the remote calls it issued, the pages whose edit
\* succeeded and the failed_links it reported
Outcome(d, ret, creates, edits, linked, failed) ==
    [doc |-> d, ret |-> ret, creates |-> creates, edits |-> edits, linked |-> linked,
     failed_links |-> failed]

NoOutcome == Outcome(NoDoc, Returned("none", NoUrl), 0, 0, {}, <<>>)

\* the publish call ends
Ends(d, ret, creates, edits, linked, failed) ==
    /\ hist' = Append(hist, HistEntry(d, ret, creates))
    /\ last' = Outcome(d, ret, creates, edits, linked, failed)

InitSession ==
    /\ skip_duplicate \in BOOLEAN
    /\ cacheFile \in InitialCacheFiles
    \* with dedup off the file is never opened: one file stands for all
    /\ (~skip_duplicate => cacheFile = FileOf({OldEntry}))
    /\ cache = IF skip_duplicate THEN _load_cache(cacheFile) ELSE {}
    /\ pc = "idle"
    /\ doc = NoDoc
    /\ content_key = NoKey
    /\ chunks = <<>>
    /\ idx = 0
    /\ attempt = 0
    /\ pages_info = <<>>
    /\ link_idx = 0
    /\ link_attempt = 0
    /\ failed_links = <<>>
    /\ nextPage = 1
    /\ lastCall = NoCall
    /\ lastSleep = 0
    /\ nCreate = 0
    /\ nEdit = 0
    /\ editDone = {}
    /\ editTried = {}
    /\ hist = <<>>
    /\ last = NoOutcome
    /\ failures = 0

\* the locals of a publish that has ended
ClearLocals ==
    /\ pc' = "idle"
    /\ doc' = NoDoc
    /\ content_key' = NoKey
    /\ chunks' = <<>>
    /\ idx' = 0
    /\ attempt' = 0
    /\ link_idx' = 0
    /\ link_attempt' = 0
    /\ failed_links' = <<>>
    /\ nCreate' = 0
    /\ nEdit' = 0
    /\ editDone' = {}

\* mutant: a failed write of the cache file is raised to the caller
FinishPublish_SaveRaises(pages, failed, creates, edits, linked, how) ==
    LET result_url == IF pages # <<>> THEN pages[1].url ELSE NoUrl
        caching == content_key # NoKey /\ result_url # NoUrl
        table == IF caching THEN Store(cache, content_key, result_url) ELSE cache
    IN  /\ cache' = table
        /\ cacheFile' = IF caching THEN _save_cache(cacheFile, table, how) ELSE cacheFile
        /\ IF caching /\ how # "written"
           THEN Ends(doc, Returned("OSError", NoUrl), creates, edits, linked, failed)
           ELSE Ends(doc, Returned("url", result_url), creates, edits, linked, failed)
        /\ pages_info' = pages
        /\ ClearLocals

\* mutant: the entry is written only when every page was linked
FinishPublish_OnlyLinked(pages, failed, creates, edits, linked, how) ==
    LET result_url == IF pages # <<>> THEN pages[1].url ELSE NoUrl
        caching == content_key # NoKey /\ result_url # NoUrl /\ failed = <<>>
        table == IF caching THEN Store(cache, content_key, result_url) ELSE cache
    IN  /\ cache' = table
        /\ cacheFile' = IF caching THEN _save_cache(cacheFile, table, how) ELSE cacheFile
        /\ Ends(doc, Returned("url", result_url), creates, edits, linked, failed)
        /\ pages_info' = pages
        /\ ClearLocals

\* mutant: the entry holds the URL of the last page
FinishPublish_LastUrl(pages, failed, creates, edits, linked, how) ==
    LET result_url == IF pages # <<>> THEN pages[1].url ELSE NoUrl
        caching == content_key # NoKey /\ result_url # NoUrl
        table == IF caching THEN Store(cache, content_key, pages[Len(pages)].url) ELSE cache
    IN  /\ cache' = table
        /\ cacheFile' = IF caching THEN _save_cache(cacheFile, table, how) ELSE cacheFile
        /\ Ends(doc, Returned("url", result_url), creates, edits, linked, failed)
        /\ pages_info' = pages
        /\ ClearLocals

\* publish_markdown after _link_pages: result_url, the cache write, the return
FinishPublish(pages, failed, creates, edits, linked, how) ==
    LET result_url == IF pages # <<>> THEN pages[1].url ELSE NoUrl
        caching == content_key # NoKey /\ result_url # NoUrl
        table == IF caching THEN Store(cache, content_key, result_url) ELSE cache
    IN  /\ cache' = table
        /\ cacheFile' = IF caching THEN _save_cache(cacheFile, table, how) ELSE cacheFile
        /\ Ends(doc, Returned("url", result_url), creates, edits, linked, failed)
        /\ pages_info' = pages
        /\ ClearLocals

(***************************************************************************)
(* publish_markdown(file_path, title), up to its first remote call.        *)
(***************************************************************************)
PublishMarkdown(d) ==
    /\ UNCHANGED <<batchVars, imageVars>>
    /\ pc = "idle"
    /\ Len(hist) < MaxPublishes
    /\ lastCall' = NoCall
    /\ lastSleep' = 0
    /\ editTried' = {}
    /\ UNCHANGED <<skip_duplicate, nextPage, failures, cacheFile, cache>>
    /\ LET key == ContentKey(d, skip_duplicate) IN
       IF IsBlank(d.content)
       THEN \* ValidationError("File is empty or contains only whitespace")
            /\ Ends(d, Returned("ValidationError", NoUrl), 0, 0, {}, <<>>)
            /\ pages_info' = <<>>
            /\ UNCHANGED <<pc, doc, content_key, chunks, idx, attempt,
                           link_idx, link_attempt, failed_links,
                           nCreate, nEdit, editDone>>
       ELSE IF key # NoKey /\ InTable(cache, key)
       THEN \* duplicate: the cached URL
            /\ Ends(d, Returned("url", Lookup(cache, key)), 0, 0, {}, <<>>)
            /\ pages_info' = <<>>
            /\ UNCHANGED <<pc, doc, content_key, chunks, idx, attempt,
                           link_idx, link_attempt, failed_links,
                           nCreate, nEdit, editDone>>
       ELSE /\ pc' = "creating"
            /\ doc' = d
            /\ content_key' = key
            /\ chunks' = split_chunks(d.content)
            /\ idx' = 1
            /\ attempt' = 0
            /\ pages_info' = <<>>
            /\ nCreate' = 0
            /\ nEdit' = 0
            /\ editDone' = {}
            /\ last' = NoOutcome
            /\ UNCHANGED <<link_idx, link_attempt, failed_links, hist>>

(***************************************************************************)
(* create_page for chunk idx succeeds.                                     *)
(***************************************************************************)
CreatePageOK(how) ==
    /\ UNCHANGED <<batchVars, imageVars>>
    /\ pc = "creating"
    /\ LET total_parts == Len(chunks)
           part_num == idx
           page_title == PageTitle(doc.title, part_num, total_parts)
           nodes == convert(chunks[idx])
           response == [path |-> nextPage, url |-> Url(nextPage)]
           info == [path |-> response.path, url |-> response.url, title |-> page_title,
                    content |-> nodes, part_num |-> part_num]
           pages == Append(pages_info, info)
       IN  /\ lastCall' = [op |-> "create", part |-> part_num, ok |-> TRUE, msg |-> <<>>,
                           path |-> response.path, title |-> page_title, content |-> nodes]
           /\ nextPage' = nextPage + 1
           /\ UNCHANGED <<skip_duplicate, failures, editTried>>
           /\ IF idx < total_parts
              THEN \* the next chunk, after a small delay
                   /\ lastSleep' = CREATE_PACING_MS
                   /\ idx' = idx + 1
                   /\ attempt' = 0
                   /\ pages_info' = pages
                   /\ nCreate' = nCreate + 1
                   /\ UNCHANGED <<cache, cacheFile, pc, doc, content_key, chunks,
                                  link_idx, link_attempt, failed_links, hist, last, nEdit,
                                  editDone>>
              ELSE IF total_parts <= 1
              THEN \* _link_pages returns at once
                   /\ lastSleep' = 0
                   /\ FinishPublish(pages, <<>>, nCreate + 1, nEdit, editDone, how)
              ELSE \* _link_pages starts with the first page
                   /\ lastSleep' = 0
                   /\ pc' = "linking"
                   /\ pages_info' = pages
                   /\ link_idx' = 1
                   /\ link_attempt' = 0
                   /\ failed_links' = <<>>
                   /\ nCreate' = nCreate + 1
                   /\ UNCHANGED <<cache, cacheFile, doc, content_key, chunks, idx,
                                  attempt, hist, last, nEdit, editDone>>

(***************************************************************************)
(* create_page for chunk idx raises e.                                     *)
(***************************************************************************)
\* mutant: a chunk whose attempts are used up is skipped and the next one is created
CreatePageFail_SkipChunk(e) ==
    /\ UNCHANGED <<batchVars, imageVars>>
    /\ pc = "creating"
    /\ failures < MaxFailures
    /\ failures' = failures + 1
    /\ lastCall' = [op |-> "create", part |-> idx, ok |-> FALSE, msg |-> e, path |-> 0,
                    title |-> PageTitle(doc.title, idx, Len(chunks)),
                    content |-> convert(chunks[idx])]
    /\ UNCHANGED <<skip_duplicate, cache, cacheFile, nextPage, editTried>>
    /\ IF attempt >= CREATE_MAX_RETRIES - 1 /\ idx = Len(chunks)
       THEN /\ lastSleep' = 0
            /\ Ends(doc, CreateAborted(idx, Len(chunks), pages_info), nCreate + 1, 0, {}, <<>>)
            /\ UNCHANGED pages_info
            /\ ClearLocals
       ELSE /\ lastSleep' = CreateBackoff(e)
            /\ attempt' = IF attempt >= CREATE_MAX_RETRIES - 1 THEN 0 ELSE attempt + 1
            /\ idx' = IF attempt >= CREATE_MAX_RETRIES - 1 THEN idx + 1 ELSE idx
            /\ nCreate' = nCreate + 1
            /\ UNCHANGED <<pc, doc, content_key, chunks, pages_info, link_idx,
                           link_attempt, failed_links, hist, last, nEdit, editDone>>

CreatePageFail(e) ==
    /\ UNCHANGED <<batchVars, imageVars>>
    /\ pc = "creating"
    /\ failures < MaxFailures
    /\ failures' = failures + 1
    /\ lastCall' = [op |-> "create", part |-> idx, ok |-> FALSE, msg |-> e, path |-> 0,
                    title |-> PageTitle(doc.title, idx, Len(chunks)),
                    content |-> convert(chunks[idx])]
    /\ UNCHANGED <<skip_duplicate, cache, cacheFile, nextPage, editTried>>
    /\ IF attempt >= CREATE_MAX_RETRIES - 1
       THEN \* raise RuntimeError: the publish is over
            /\ lastSleep' = 0
            /\ Ends(doc, CreateAborted(idx, Len(chunks), pages_info), nCreate + 1, 0, {}, <<>>)
            /\ UNCHANGED pages_info
            /\ ClearLocals
       ELSE /\ lastSleep' = CreateBackoff(e)
            /\ attempt' = attempt + 1
            /\ nCreate' = nCreate + 1
            /\ UNCHANGED <<pc, doc, content_key, chunks, idx, pages_info, link_idx,
                           link_attempt, failed_links, hist, last, nEdit, editDone>>

(***************************************************************************)
(* _link_pages: edit_page for page link_idx succeeds.                      *)
(***************************************************************************)
EditCall(ok, e) ==
    [op |-> "edit", part |-> link_idx, ok |-> ok, msg |-> e,
     path |-> pages_info[link_idx].path, title |-> pages_info[link_idx].title,
     content |-> LinkedContent(pages_info, link_idx)]

\* mutant: no break after a successful edit, the page is edited again until its
\* attempts are used up
EditPageOK_NoBreak(how) ==
    /\ UNCHANGED <<batchVars, imageVars>>
    /\ pc = "linking"
    /\ lastCall' = EditCall(TRUE, <<>>)
    /\ editTried' = editTried \cup {link_idx}
    /\ UNCHANGED <<skip_duplicate, nextPage, failures>>
    /\ IF link_attempt + 1 < LINK_MAX_RETRIES
       THEN /\ lastSleep' = 0
            /\ link_attempt' = link_attempt + 1
            /\ nEdit' = nEdit + 1
            /\ editDone' = editDone \cup {link_idx}
            /\ UNCHANGED <<cache, cacheFile, pc, doc, content_key, chunks, idx, attempt,
                           pages_info, link_idx, failed_links, hist, last, nCreate>>
       ELSE IF link_idx < Len(pages_info)
       THEN /\ lastSleep' = LINK_PACING_MS
            /\ link_idx' = link_idx + 1
            /\ link_attempt' = 0
            /\ nEdit' = nEdit + 1
            /\ editDone' = editDone \cup {link_idx}
            /\ UNCHANGED <<cache, cacheFile, pc, doc, content_key, chunks, idx, attempt,
                           pages_info, failed_links, hist, last, nCreate>>
       ELSE /\ lastSleep' = 0
            /\ FinishPublish(pages_info, failed_links, nCreate, nEdit + 1,
                             editDone \cup {link_idx}, how)

EditPageOK(how) ==
    /\ UNCHANGED <<batchVars, imageVars>>
    /\ pc = "linking"
    /\ lastCall' = EditCall(TRUE, <<>>)
    /\ editTried' = editTried \cup {link_idx}
    /\ UNCHANGED <<skip_duplicate, nextPage, failures>>
    /\ IF link_idx < Len(pages_info)
       THEN \* success and i < total_parts - 1: small delay, next page
            /\ lastSleep' = LINK_PACING_MS
            /\ link_idx' = link_idx + 1
            /\ link_attempt' = 0
            /\ nEdit' = nEdit + 1
            /\ editDone' = editDone \cup {link_idx}
            /\ UNCHANGED <<cache, cacheFile, pc, doc, content_key, chunks, idx, attempt,
                           pages_info, failed_links, hist, last, nCreate>>
       ELSE /\ lastSleep' = 0
            /\ FinishPublish(pages_info, failed_links, nCreate, nEdit + 1,
                             editDone \cup {link_idx}, how)

(***************************************************************************)
(* _link_pages: edit_page for page link_idx raises e.                      *)
(***************************************************************************)
\* mutant: the waits and the attempt bound of page creation
LinkFailure_AsCreate(e, attempt_no) ==
    IF attempt_no >= CREATE_MAX_RETRIES - 1
    THEN [sleep |-> 0, failed |-> TRUE]
    ELSE [sleep |-> CreateBackoff(e), failed |-> FALSE]

\* the except branch taken: wait for the hint, wait a second, or give the page up
LinkFailure(e, attempt_no) ==
    IF HasFloodControl(e) /\ RetryInMatch(e) # NoMatch
    THEN [sleep |-> (RetryInMatch(e) + 1) * 1000, failed |-> FALSE]
    ELSE IF attempt_no < LINK_MAX_RETRIES - 1
    THEN [sleep |-> LINK_FIXED_DELAY_MS, failed |-> FALSE]
    ELSE [sleep |-> 0, failed |-> TRUE]

\* mutant: giving a page up ends the linking pass (break instead of the next page)
EditPageFail_Break(e, how) ==
    /\ UNCHANGED <<batchVars, imageVars>>
    /\ pc = "linking"
    /\ failures < MaxFailures
    /\ failures' = failures + 1
    /\ lastCall' = EditCall(FALSE, e)
    /\ editTried' = editTried \cup {link_idx}
    /\ UNCHANGED <<skip_duplicate, nextPage>>
    /\ LET branch == LinkFailure(e, link_attempt)
           failed == IF branch.failed THEN Append(failed_links, link_idx) ELSE failed_links
       IN  /\ lastSleep' = branch.sleep
           /\ IF link_attempt + 1 < LINK_MAX_RETRIES
              THEN /\ link_attempt' = link_attempt + 1
                   /\ failed_links' = failed
                   /\ nEdit' = nEdit + 1
                   /\ UNCHANGED <<cache, cacheFile, pc, doc, content_key, chunks, idx,
                                  attempt, pages_info, link_idx, hist, last,
                                  nCreate, editDone>>
              ELSE FinishPublish(pages_info, failed, nCreate, nEdit + 1, editDone, how)

\* mutant: the navigation is appended to the saved content of the page itself
EditPageFail_InPlace(e, how) ==
    /\ UNCHANGED <<batchVars, imageVars>>
    /\ pc = "linking"
    /\ failures < MaxFailures
    /\ failures' = failures + 1
    /\ lastCall' = EditCall(FALSE, e)
    /\ editTried' = editTried \cup {link_idx}
    /\ UNCHANGED <<skip_duplicate, nextPage>>
    /\ LET branch == LinkFailure(e, link_attempt)
           failed == IF branch.failed THEN Append(failed_links, link_idx) ELSE failed_links
           pages == [pages_info EXCEPT ![link_idx].content = LinkedContent(pages_info, link_idx)]
       IN  /\ lastSleep' = branch.sleep
           /\ IF link_attempt + 1 < LINK_MAX_RETRIES
              THEN /\ link_attempt' = link_attempt + 1
                   /\ failed_links' = failed
                   /\ nEdit' = nEdit + 1
                   /\ pages_info' = pages
                   /\ UNCHANGED <<cache, cacheFile, pc, doc, content_key, chunks, idx,
                                  attempt, link_idx, hist, last, nCreate, editDone>>
              ELSE IF link_idx < Len(pages_info)
              THEN /\ link_idx' = link_idx + 1
                   /\ link_attempt' = 0
                   /\ failed_links' = failed
                   /\ nEdit' = nEdit + 1
                   /\ pages_info' = pages
                   /\ UNCHANGED <<cache, cacheFile, pc, doc, content_key, chunks, idx,
                                  attempt, hist, last, nCreate, editDone>>
              ELSE FinishPublish(pages, failed, nCreate, nEdit + 1, editDone, how)

EditPageFail(e, how) ==
    /\ UNCHANGED <<batchVars, imageVars>>
    /\ pc = "linking"
    /\ failures < MaxFailures
    /\ failures' = failures + 1
    /\ lastCall' = EditCall(FALSE, e)
    /\ editTried' = editTried \cup {link_idx}
    /\ UNCHANGED <<skip_duplicate, nextPage>>
    /\ LET branch == LinkFailure(e, link_attempt)
           failed == IF branch.failed THEN Append(failed_links, link_idx) ELSE failed_links
       IN  /\ lastSleep' = branch.sleep
           /\ IF link_attempt + 1 < LINK_MAX_RETRIES
              THEN \* the next attempt for the same page
                   /\ link_attempt' = link_attempt + 1
                   /\ failed_links' = failed
                   /\ nEdit' = nEdit + 1
                   /\ UNCHANGED <<cache, cacheFile, pc, doc, content_key, chunks, idx,
                                  attempt, pages_info, link_idx, hist, last,
                                  nCreate, editDone>>
              ELSE IF link_idx < Len(pages_info)
              THEN \* the attempts are used up: the next page
                   /\ link_idx' = link_idx + 1
                   /\ link_attempt' = 0
                   /\ failed_links' = failed
                   /\ nEdit' = nEdit + 1
                   /\ UNCHANGED <<cache, cacheFile, pc, doc, content_key, chunks, idx,
                                  attempt, pages_info, hist, last, nCreate, editDone>>
              ELSE FinishPublish(pages_info, failed, nCreate, nEdit + 1, editDone, how)

(***************************************************************************)
(* Galleries (core.py). A list of n images is the run Run("img", n); the    *)
(* k-th chunk is the run of the images of page k.                          *)
(***************************************************************************)
\* MAX_IMAGES_PER_PAGE = 100
MAX_IMAGES_PER_PAGE == 100

\* chunks = [image_urls[i:i + chunk_size] for i in range(0, len(image_urls), chunk_size)]
RECURSIVE GalleryChunks(_)
GalleryChunks(n) ==
    IF n <= 0 THEN <<>>
    ELSE IF n <= MAX_IMAGES_PER_PAGE THEN <<Run("img", n)>>
    ELSE <<Run("img", MAX_IMAGES_PER_PAGE)>> \o GalleryChunks(n - MAX_IMAGES_PER_PAGE)

\* content.append({'tag': 'img', 'attrs': {'src': url}}) for the URLs of a chunk
ImgNodes(chunk) == <<Node("img", NoUrl, 0, chunk)>>

\* numbers of images a gallery is published with
GallerySizes == {0, MAX_IMAGES_PER_PAGE, MAX_IMAGES_PER_PAGE + 1, 2 * MAX_IMAGES_PER_PAGE + 1}

Gallery(n, title) == [content |-> IF n > 0 THEN Run("img", n) ELSE <<>>, title |-> title]

\* RuntimeError(f"Failed to publish Part {part_num}: {e}")
GalleryAborted(part_num) ==
    [Returned("RuntimeError", NoUrl) EXCEPT !.part = part_num, !.attempts = 1]

\* publish_optimized_gallery(image_urls, title), up to its first remote call
PublishOptimizedGallery(n, title) ==
    /\ UNCHANGED <<batchVars, imageVars>>
    /\ pc = "idle"
    /\ Len(hist) < MaxPublishes
    /\ lastCall' = NoCall
    /\ lastSleep' = 0
    /\ editTried' = {}
    /\ UNCHANGED <<skip_duplicate, nextPage, failures, cacheFile, cache>>
    /\ IF n = 0
       THEN \* ValidationError("No image URLs provided")
            /\ Ends(Gallery(n, title), Returned("ValidationError", NoUrl), 0, 0, {}, <<>>)
            /\ pages_info' = <<>>
            /\ UNCHANGED <<pc, doc, content_key, chunks, idx, attempt,
                           link_idx, link_attempt, failed_links,
                           nCreate, nEdit, editDone>>
       ELSE /\ pc' = "gallery"
            /\ doc' = Gallery(n, title)
            /\ content_key' = NoKey
            /\ chunks' = GalleryChunks(n)
            /\ idx' = 1
            /\ attempt' = 0
            /\ pages_info' = <<>>
            /\ nCreate' = 0
            /\ nEdit' = 0
            /\ editDone' = {}
            /\ last' = NoOutcome
            /\ UNCHANGED <<link_idx, link_attempt, failed_links, hist>>

\* create_page for the images of chunk idx succeeds
GalleryCreateOK ==
    /\ UNCHANGED <<batchVars, imageVars>>
    /\ pc = "gallery"
    /\ LET total_parts == Len(chunks)
           part_num == idx
           page_title == PageTitle(doc.title, part_num, total_parts)
           content == ImgNodes(chunks[idx])
           response == [path |-> nextPage, url |-> Url(nextPage)]
           \* no 'part_num' key: _link_pages falls back on the position
           info == [path |-> response.path, url |-> response.url, title |-> page_title,
                    content |-> content, part_num |-> part_num]
           pages == Append(pages_info, info)
       IN  /\ lastCall' = [op |-> "create", part |-> part_num, ok |-> TRUE, msg |-> <<>>,
                           path |-> response.path, title |-> page_title,
                           content |-> content]
           /\ nextPage' = nextPage + 1
           /\ lastSleep' = 0
           /\ UNCHANGED <<skip_duplicate, failures, editTried>>
           /\ IF idx < total_parts
              THEN /\ idx' = idx + 1
                   /\ pages_info' = pages
                   /\ nCreate' = nCreate + 1
                   /\ UNCHANGED <<cache, cacheFile, pc, doc, content_key, chunks, attempt,
                                  link_idx, link_attempt, failed_links, hist, last, nEdit,
                                  editDone>>
              ELSE IF total_parts <= 1
              THEN \* _link_pages returns at once
                   FinishPublish(pages, <<>>, nCreate + 1, nEdit, editDone, "written")
              ELSE /\ pc' = "linking"
                   /\ pages_info' = pages
                   /\ link_idx' = 1
                   /\ link_attempt' = 0
                   /\ failed_links' = <<>>
                   /\ nCreate' = nCreate + 1
                   /\ UNCHANGED <<cache, cacheFile, doc, content_key, chunks, idx,
                                  attempt, hist, last, nEdit, editDone>>

\* create_page for the images of chunk idx raises e: RuntimeError, without a retry
GalleryCreateFail(e) ==
    /\ UNCHANGED <<batchVars, imageVars>>
    /\ pc = "gallery"
    /\ failures < MaxFailures
    /\ failures' = failures + 1
    /\ lastCall' = [op |-> "create", part |-> idx, ok |-> FALSE, msg |-> e, path |-> 0,
                    title |-> PageTitle(doc.title, idx, Len(chunks)),
                    content |-> ImgNodes(chunks[idx])]
    /\ lastSleep' = 0
    /\ UNCHANGED <<skip_duplicate, cache, cacheFile, nextPage, editTried, pages_info>>
    /\ Ends(doc, GalleryAborted(idx), nCreate + 1, 0, {}, <<>>)
    /\ ClearLocals

\* publish_zip_gallery(zip_path, title) on a zip of n images: without images it raises
\* ValidationError; with images the first self.uploader.upload_batch(chunk_images,
\* auto_compress=..., max_size=..., progress_callback=...) raises TypeError, upload_batch
\* having no max_size parameter, before any page is created
PublishZipGallery(n, title) ==
    /\ UNCHANGED <<batchVars, imageVars>>
    /\ pc = "idle"
    /\ Len(hist) < MaxPublishes
    /\ lastCall' = NoCall
    /\ lastSleep' = 0
    /\ editTried' = {}
    /\ pages_info' = <<>>
    /\ Ends([content |-> IF n > 0 THEN Run("zip", n) ELSE <<>>, title |-> title],
            Returned(IF n = 0 THEN "ValidationError" ELSE "TypeError", NoUrl),
            0, 0, {}, <<>>)
    /\ UNCHANGED <<skip_duplicate, nextPage, failures, cacheFile, cache, pc, doc,
                   content_key, chunks, idx, attempt, link_idx, link_attempt,
                   failed_links, nCreate, nEdit, editDone>>

(***************************************************************************)
(* compress_image_to_size (utils.py).                                      *)
(* An image is [size, ext, opens, enc, gain, save]: the size of its file,   *)
(* its extension, whether Image.open reads it, the size of its first       *)
(* encoding and what each further encoding try saves, and what becomes of  *)
(* the write of the temp file.                                             *)
(***************************************************************************)
\* MAX_IMAGE_SIZE = 5 * 1024 * 1024
MAX_IMAGE_SIZE == 5242880

\* Pillow is a declared dependency (setup.py install_requires)
PIL_AVAILABLE == TRUE

\* min_quality: int = 30
MIN_QUALITY == 30
\* min_scale: float = 0.3, in tenths
MIN_SCALE_TENTHS == 3

SKIP_COMPRESSION_FORMATS == {"gif"}

NoBuffer == -1

\* img.save(buffer, ...); buffer.tell(): the size of encoding try n
Encode(img, n) ==
    IF img.enc > (n - 1) * img.gain + 1 THEN img.enc - (n - 1) * img.gain ELSE 1

\* tries of the quality phase: range(95, min_quality - 1, -5)
QualityTries == (95 - MIN_QUALITY) \div 5 + 1
\* tries of one scale: range(85, min_quality - 1, -10)
TriesPerScale == (85 - MIN_QUALITY) \div 10 + 1

\* mutant: a buffer one byte over the limit is accepted
Fits_OneOver(size, max) == size <= max + 1

\* if buffer.tell() <= max_size
Fits(size, max) == size <= max

\* for quality in range(95, min_quality - 1, -5): the first buffer that fits
RECURSIVE _try_quality_compression(_, _, _)
_try_quality_compression(img, max, quality) ==
    LET n == (95 - quality) \div 5 + 1 IN
    IF quality < MIN_QUALITY THEN NoBuffer
    ELSE IF Fits(Encode(img, n), max) THEN Encode(img, n)
    ELSE _try_quality_compression(img, max, quality - 5)

\* while scale >= min_scale: for quality in range(85, min_quality - 1, -10)
RECURSIVE _try_scale_compression(_, _, _, _)
_try_scale_compression(img, max, scale, quality) ==
    LET n == QualityTries + (9 - scale) * TriesPerScale + (85 - quality) \div 10 + 1 IN
    IF scale < MIN_SCALE_TENTHS THEN NoBuffer
    ELSE IF quality < MIN_QUALITY THEN _try_scale_compression(img, max, scale - 1, 85)
    ELSE IF Fits(Encode(img, n), max) THEN Encode(img, n)
    ELSE _try_scale_compression(img, max, scale, quality - 10)

\* what compress_image_to_size gives back: (output_path, was_compressed) and the size
\* of the file at output_path, or the exception raised; temp_left: a temp file was
\* made and not removed
Compressed(path, was_compressed, size) ==
    [kind |-> "return", exc |-> "", path |-> path, was_compressed |-> was_compressed,
     size |-> size, temp_left |-> FALSE]
CompressRaises(exc, temp_left) ==
    [kind |-> "raise", exc |-> exc, path |-> "none", was_compressed |-> FALSE,
     size |-> 0, temp_left |-> temp_left]
NoCompressed ==
    [kind |-> "none", exc |-> "", path |-> "none", was_compressed |-> FALSE,
     size |-> 0, temp_left |-> FALSE]

\* _save_compressed_image: mkstemp, write, return (temp_path, True). When the write
\* fails the file object has closed fd, os.close(fd) raises and the unlink is skipped.
_save_compressed_image(buffer, save) ==
    CASE save = "written" -> Compressed("temp_path", TRUE, buffer)
      [] save = "unopened" -> CompressRaises("ConversionError", FALSE)
      [] OTHER -> CompressRaises("ConversionError", TRUE)

compress_image_to_size(img, max) ==
    IF ~PIL_AVAILABLE THEN CompressRaises("ValidationError", FALSE)
    ELSE IF img.size <= max THEN Compressed("image_path", FALSE, img.size)
    ELSE IF img.ext \in SKIP_COMPRESSION_FORMATS THEN CompressRaises("ConversionError", FALSE)
    ELSE IF ~img.opens THEN CompressRaises("ConversionError", FALSE)
    ELSE LET q == _try_quality_compression(img, max, 95)
             sc == _try_scale_compression(img, max, 9, 85)
         IN  IF q # NoBuffer THEN _save_compressed_image(q, img.save)
             ELSE IF sc # NoBuffer THEN _save_compressed_image(sc, img.save)
             ELSE CompressRaises("ConversionError", FALSE)

\* max_size arguments
MaxSizes == {100, MAX_IMAGE_SIZE}

\* images around the limit `max`. With gain 1 the try that first fits is enc - max + 1:
\* the first and the last of each phase, and none
Images(max) ==
    [size : {max - 1, max, max + 1, 2 * max},
     ext : {"jpg", "gif"},
     opens : BOOLEAN,
     enc : {max, max + 1, max + QualityTries - 1, max + QualityTries,
            max + QualityTries + 6 * TriesPerScale + TriesPerScale - 1,
            max + QualityTries + 7 * TriesPerScale},
     gain : {0, 1},
     save : {"written", "unopened", "failed"}]

NoImage == [size |-> 0, ext |-> "", opens |-> FALSE, enc |-> 0, gain |-> 0, save |-> ""]

(***************************************************************************)
(* ImageUploader (uploader.py).                                            *)
(***************************************************************************)
\* paths of one batch
MaxPaths == 3
\* max_workers
MaxWorkers == 2
\* retries
MaxRetries == 2

\* mutant: the Telegraph upload is switched back on
UPLOAD_DISABLED_Off == FALSE

\* _UPLOAD_DISABLED = True
UPLOAD_DISABLED == TRUE

NoError == [text |-> "", path |-> 0, attempts |-> 0]
ErrorText(text, path, attempts) == [text |-> text, path |-> path, attempts |-> attempts]

\* "https://telegra.ph" + response[0]['src']
FileUrl(path) == <<"https://telegra.ph/file/", path>>

\* what a call gives back: a value, or the exception it raises; remote and compress
\* count its calls of upload_file and compress_image_to_size, left says that the temp
\* file of the compression is still there
UploadReturns(url, remote, compress) ==
    [kind |-> "return", url |-> url, exc |-> "", error |-> NoError,
     remote |-> remote, compress |-> compress, left |-> FALSE]
UploadRaises(exc, error, remote, compress) ==
    [kind |-> "raise", url |-> NoUrl, exc |-> exc, error |-> error,
     remote |-> remote, compress |-> compress, left |-> FALSE]

\* what the file system and the remote service do during one upload_safe call:
\* the file at the time of upload, the outcome of each upload_file attempt, and the
\* file when os.path.getsize reads it afterwards. What is never read is left at
\* one value: the size of a missing file, whether a small file compresses, the
\* attempts after the one that answered, the unlink of a temp file never made.
UploadEnvs(r) ==
    {env \in [exists : BOOLEAN, size : {MAX_IMAGE_SIZE, MAX_IMAGE_SIZE + 1},
              compressible : BOOLEAN, remote : [1..r -> BOOLEAN], later_exists : BOOLEAN,
              later_size : {MAX_IMAGE_SIZE, MAX_IMAGE_SIZE + 1}, unlink_ok : BOOLEAN] :
        /\ ~env.exists => env.size = MAX_IMAGE_SIZE
        /\ ~env.compressible => env.unlink_ok
        /\ env.size = MAX_IMAGE_SIZE => ~env.compressible
        /\ \A j, k \in 1..r : (j < k /\ env.remote[j]) => env.remote[k]
        /\ ~env.later_exists => env.later_size = MAX_IMAGE_SIZE}

\* the file of env as compress_image_to_size sees it: its first encoding fits, or none
EnvImage(env) ==
    [size |-> env.size, ext |-> "jpg", opens |-> TRUE,
     enc |-> IF env.compressible THEN MAX_IMAGE_SIZE ELSE 2 * MAX_IMAGE_SIZE,
     gain |-> 0, save |-> "written"]

\* _upload_with_retry: attempts until upload_file answers, at most `r` of them
_upload_with_retry(original_path, r, env, compress) ==
    LET good == {k \in 1..r : env.remote[k]}
        first == CHOOSE k \in good : \A j \in good : k <= j
    IN  IF good # {}
        THEN UploadReturns(FileUrl(original_path), first, compress)
        ELSE UploadRaises("UploadError", ErrorText("Failed to upload", original_path, r),
                          r, compress)

\* ImageUploader.upload
upload(path, r, compressing, env) ==
    IF UPLOAD_DISABLED
    THEN UploadRaises("UploadError", ErrorText("_UPLOAD_ERROR_MSG", 0, 0), 0, 0)
    ELSE IF ~env.exists
    THEN UploadRaises("FileNotFoundError", ErrorText("Image not found", path, 0), 0, 0)
    ELSE IF compressing
    THEN LET c == compress_image_to_size(EnvImage(env), MAX_IMAGE_SIZE) IN
         IF c.kind = "raise"
         THEN UploadRaises(c.exc, ErrorText("Cannot compress", path, 0), 0, 1)
         ELSE \* finally: os.unlink(upload_path), except OSError: pass
              [_upload_with_retry(path, r, env, 1)
                  EXCEPT !.left = c.was_compressed /\ ~env.unlink_ok]
    ELSE \* validate_file_size(path, MAX_IMAGE_SIZE, "Image file too large")
         IF env.size > MAX_IMAGE_SIZE
         THEN UploadRaises("ValidationError", ErrorText("Image file too large", path, 0), 0, 0)
         ELSE _upload_with_retry(path, r, env, 0)

\* the classes `except Exception` catches, among those upload can raise
\* (KeyboardInterrupt and SystemExit derive from BaseException only)
ExceptionClasses ==
    {"UploadError", "FileNotFoundError", "ValidationError", "ConversionError",
     "OSError", "TypeError", "Exception"}
BaseExceptionClasses == ExceptionClasses \cup {"KeyboardInterrupt", "SystemExit"}

\* UploadResult(path=path)
UploadResult(path) ==
    [path |-> path, url |-> NoUrl, error |-> NoError, success |-> FALSE,
     compressed |-> FALSE, attempts |-> 0]

NoOutput == [kind |-> "none", exc |-> "", result |-> UploadResult(0)]
Gives(result) == [kind |-> "result", exc |-> "", result |-> result]
Propagates(exc) == [kind |-> "raise", exc |-> exc, result |-> UploadResult(0)]

\* mutant: except UploadError instead of except Exception
upload_safe_Narrow(path, up, env) ==
    IF up.kind = "raise" /\ up.exc # "UploadError"
    THEN [kind |-> "raise", exc |-> up.exc, result |-> UploadResult(0)]
    ELSE [kind |-> "result", exc |-> "",
          result |-> [UploadResult(path) EXCEPT
                         !.url = up.url, !.error = up.error, !.success = (up.kind = "return")]]

\* ImageUploader.upload_safe, `up` being what self.upload did
upload_safe(path, up, env) ==
    IF up.kind = "return"
    THEN IF env.later_exists
         THEN Gives([UploadResult(path) EXCEPT
                        !.url = up.url, !.success = TRUE,
                        !.compressed = (env.later_size > MAX_IMAGE_SIZE)])
         ELSE \* os.path.getsize raises: except Exception
              Gives([UploadResult(path) EXCEPT
                        !.url = up.url, !.success = FALSE,
                        !.error = ErrorText("No such file or directory", path, 0)])
    ELSE IF up.exc \in ExceptionClasses
    THEN Gives([UploadResult(path) EXCEPT !.error = up.error, !.success = FALSE])
    ELSE Propagates(up.exc)

\* mutant: a failure is appended but not counted
Tally_FailureUncounted(b, result) ==
    [b EXCEPT !.results = Append(@, result),
              !.successful = IF result.success THEN @ + 1 ELSE @]

\* batch_result.results.append(result) and the counters
Tally(b, result) ==
    [b EXCEPT !.results = Append(@, result),
              !.successful = IF result.success THEN @ + 1 ELSE @,
              !.failed = IF result.success THEN @ ELSE @ + 1]

BatchUploadResult(total) ==
    [total |-> total, successful |-> 0, failed |-> 0, results |-> <<>>]

\* get_url_map: original path -> URL, for the results that succeeded with a URL
get_url_map(b) ==
    {[path |-> b.results[k].path, url |-> b.results[k].url] :
        k \in {j \in 1..Len(b.results) : b.results[j].success /\ b.results[j].url # NoUrl}}

\* get_failed_paths
get_failed_paths(b) ==
    {b.results[k].path : k \in {j \in 1..Len(b.results) : ~b.results[j].success}}

\* no retry_failed call
NoPrev == [total |-> -1, successful |-> 0, failed |-> 0, results |-> <<>>]

InitBatch ==
    /\ bpc = "idle"
    /\ nPaths = 0
    /\ retries = 0
    /\ auto_compress = FALSE
    /\ workers = 0
    /\ stop_on_error = FALSE
    /\ progress_callback = "none"
    /\ task = <<>>
    /\ yielded = {}
    /\ should_stop = FALSE
    /\ completed = 0
    /\ batch_result = BatchUploadResult(0)
    /\ startedAfterStop = {}
    /\ remoteCalls = 0
    /\ compressCalls = 0
    /\ callbackCalls = 0
    /\ missingSeen = FALSE
    /\ temp_files = {}
    /\ paths = <<>>
    /\ prev = NoPrev

\* no second process
NoPeers == [file |-> [state |-> "missing", table |-> {}], s |-> <<>>, saved |-> <<>>,
            pages |-> 0]

NoLoop == [pc |-> "idle", retries |-> 0, retry_delay |-> 0, max_retry_delay |-> 0,
           attempt |-> 0, delay |-> 0, calls |-> 0, sleeps |-> <<>>]

InitImage ==
    /\ cpc = "idle"
    /\ image = NoImage
    /\ max_size = 0
    /\ compressed = NoCompressed
    /\ retry_loop = NoLoop
    /\ peers = NoPeers

\* compress_image_to_size(image_path, max_size)
CompressImage(img, max) ==
    /\ cpc = "idle"
    /\ cpc' = "done"
    /\ image' = img
    /\ max_size' = max
    /\ compressed' = compress_image_to_size(img, max)
    /\ UNCHANGED <<retry_loop, peers>>
    /\ UNCHANGED <<sessionVars, batchVars>>

(***************************************************************************)
(* _upload_with_retry(upload_path, original_path, retries, retry_delay,    *)
(* max_retry_delay), attempt by attempt. Times are in milliseconds.        *)
(***************************************************************************)
\* retries of a call of the loop on its own
MaxAttempts == 4

Min(a, b) == IF a <= b THEN a ELSE b

\* random.uniform(0, 0.1 * delay): the ends of the interval and a value inside it
Jitters(delay) == {0, delay \div 20, delay \div 10}

\* mutant: the sleep is not capped
BackoffSleep_Uncapped(delay, jitter, max_retry_delay) == delay + jitter

\* min(delay + jitter, max_retry_delay)
BackoffSleep(delay, jitter, max_retry_delay) == Min(delay + jitter, max_retry_delay)

UploadWithRetry(r, d, m) ==
    /\ retry_loop = NoLoop
    /\ retry_loop' = [pc |-> "trying", retries |-> r, retry_delay |-> d,
                      max_retry_delay |-> m, attempt |-> 0, delay |-> d, calls |-> 0,
                      sleeps |-> <<>>]
    /\ UNCHANGED <<cpc, image, max_size, compressed, peers>>
    /\ UNCHANGED <<sessionVars, batchVars>>

\* upload_file answers with a list holding 'src': return the URL
AttemptOK ==
    /\ retry_loop.pc = "trying"
    /\ retry_loop' = [retry_loop EXCEPT !.pc = "returned", !.calls = @ + 1]
    /\ UNCHANGED <<cpc, image, max_size, compressed, peers>>
    /\ UNCHANGED <<sessionVars, batchVars>>

\* upload_file raises, or its answer is invalid: except Exception
AttemptFail(jitter) ==
    /\ retry_loop.pc = "trying"
    /\ jitter \in Jitters(retry_loop.delay)
    /\ retry_loop' =
          IF retry_loop.attempt < retry_loop.retries - 1
          THEN [retry_loop EXCEPT
                   !.calls = @ + 1,
                   !.sleeps = Append(@, BackoffSleep(retry_loop.delay, jitter,
                                                     retry_loop.max_retry_delay)),
                   !.delay = @ * 2,
                   !.attempt = @ + 1]
          ELSE \* the loop is over: raise UploadError(...)
               [retry_loop EXCEPT !.calls = @ + 1, !.pc = "raised"]
    /\ UNCHANGED <<cpc, image, max_size, compressed, peers>>
    /\ UNCHANGED <<sessionVars, batchVars>>

\* upload_batch(paths, retries, auto_compress, max_workers, progress_callback,
\* stop_on_error) up to the submission of the tasks
upload_batch(ps, r, compressing, w, cb, stop) ==
    /\ bpc = "idle"
    /\ paths' = ps
    /\ nPaths' = Len(ps)
    /\ retries' = r
    /\ auto_compress' = compressing
    /\ workers' = w
    /\ progress_callback' = cb
    /\ stop_on_error' = stop
    /\ batch_result' = BatchUploadResult(Len(ps))
    /\ IF ps = <<>>
       THEN \* if not paths: return batch_result
            /\ bpc' = "returned"
            /\ task' = <<>>
       ELSE /\ bpc' = "running"
            /\ task' = [t \in 1..Len(ps) |-> [st |-> "pending", out |-> NoOutput]]
    /\ UNCHANGED <<yielded, should_stop, completed, startedAfterStop, remoteCalls,
                   compressCalls, callbackCalls, missingSeen, temp_files>>
    /\ UNCHANGED <<sessionVars, imageVars>>

\* a caller's upload_batch over n distinct files, named 1..n
UploadBatch(n, r, compressing, w, cb, stop) ==
    /\ upload_batch([t \in 1..n |-> t], r, compressing, w, cb, stop)
    /\ UNCHANGED prev

\* mutant: every path of the previous result
failed_paths_All(b) == [k \in 1..Len(b.results) |-> b.results[k].path]

\* failed_paths = batch_result.get_failed_paths(): the list, in the order of the results
failed_paths(b) ==
    LET failed == SelectSeq(b.results, LAMBDA r : ~r.success)
    IN  [k \in 1..Len(failed) |-> failed[k].path]

\* retry_failed(batch_result, retries, auto_compress, progress_callback): max_workers
\* and stop_on_error are left to upload_batch's defaults (w is self.max_workers)
RetryFailed(p, r, compressing, w, cb) ==
    /\ bpc = "idle"
    /\ prev' = p
    /\ IF failed_paths(p) = <<>>
       THEN \* return BatchUploadResult()  # Nothing to retry
            /\ bpc' = "returned"
            /\ batch_result' = BatchUploadResult(0)
            /\ UNCHANGED <<nPaths, retries, auto_compress, workers, stop_on_error,
                           progress_callback, task, yielded, should_stop, completed,
                           startedAfterStop, remoteCalls, compressCalls, callbackCalls,
                           missingSeen, temp_files, paths>>
            /\ UNCHANGED <<sessionVars, imageVars>>
       ELSE upload_batch(failed_paths(p), r, compressing, w, cb, FALSE)

Pending == {t \in 1..nPaths : task[t].st = "pending"}
Running == {t \in 1..nPaths : task[t].st = "running"}
Done == {t \in 1..nPaths : task[t].st = "done"}

\* a free worker thread takes the oldest pending task
WorkerStart(t) ==
    /\ bpc \in {"running", "raised"}
    /\ t \in Pending
    /\ \A u \in Pending : t <= u
    /\ Cardinality(Running) < workers
    /\ task' = [task EXCEPT ![t].st = "running"]
    /\ startedAfterStop' = IF should_stop THEN startedAfterStop \cup {t} ELSE startedAfterStop
    /\ UNCHANGED <<bpc, nPaths, retries, auto_compress, workers, stop_on_error,
                   progress_callback, yielded, should_stop, completed, batch_result,
                   remoteCalls, compressCalls, callbackCalls, missingSeen, temp_files>>
    /\ UNCHANGED <<paths, prev>>
    /\ UNCHANGED <<sessionVars, imageVars>>

\* mutant: the worker appends its result to the shared batch result itself
WorkerDone_Appends(t, env) ==
    /\ bpc \in {"running", "raised"}
    /\ t \in Running
    /\ LET up == upload(paths[t], retries, auto_compress, env) IN
       /\ task' = [task EXCEPT ![t] = [st |-> "done",
                                        out |-> upload_safe(paths[t], up, env)]]
       /\ batch_result' = [batch_result EXCEPT
                              !.results = Append(@, upload_safe(paths[t], up, env).result)]
       /\ missingSeen' = (missingSeen \/ ~env.exists)
       /\ remoteCalls' = remoteCalls + up.remote
       /\ compressCalls' = compressCalls + up.compress
       /\ temp_files' = IF up.left THEN temp_files \cup {t} ELSE temp_files
    /\ UNCHANGED <<bpc, nPaths, retries, auto_compress, workers, stop_on_error,
                   progress_callback, yielded, should_stop, completed,
                   startedAfterStop, callbackCalls>>
    /\ UNCHANGED <<paths, prev>>
    /\ UNCHANGED <<sessionVars, imageVars>>

\* the worker runs upload_safe(path, retries, auto_compress) to its end
WorkerDone(t, env) ==
    /\ bpc \in {"running", "raised"}
    /\ t \in Running
    /\ LET up == upload(paths[t], retries, auto_compress, env) IN
       /\ task' = [task EXCEPT ![t] = [st |-> "done",
                                        out |-> upload_safe(paths[t], up, env)]]
       /\ missingSeen' = (missingSeen \/ ~env.exists)
       /\ remoteCalls' = remoteCalls + up.remote
       /\ compressCalls' = compressCalls + up.compress
       /\ temp_files' = IF up.left THEN temp_files \cup {t} ELSE temp_files
    /\ UNCHANGED <<bpc, nPaths, retries, auto_compress, workers, stop_on_error,
                   progress_callback, yielded, should_stop, completed, batch_result,
                   startedAfterStop, callbackCalls>>
    /\ UNCHANGED <<paths, prev>>
    /\ UNCHANGED <<sessionVars, imageVars>>

\* mutant: no try around the callback, its exception leaves upload_batch
NotifyProgress_Propagates(cb) == IF cb = "raises" THEN "raise" ELSE "pass"

\* try: progress_callback(completed, len(paths), result) / except Exception: pass
\* (a callback "raises" raises an Exception, as the ValueError of the tests)
NotifyProgress(cb) == "pass"

\* one round of `for future in as_completed(future_to_path)`, and the return
\* after the last
Collect(t) ==
    /\ bpc = "running"
    /\ t \in Done \ yielded
    /\ yielded' = yielded \cup {t}
    /\ IF should_stop
       THEN \* future.cancel(); continue
            /\ bpc' = IF yielded' = 1..nPaths THEN "returned" ELSE "running"
            /\ UNCHANGED <<should_stop, completed, batch_result, callbackCalls>>
       ELSE IF task[t].out.kind = "raise"
       THEN \* future.result() raises what the task raised
            /\ bpc' = "raised"
            /\ UNCHANGED <<should_stop, completed, batch_result, callbackCalls>>
       ELSE LET result == task[t].out.result IN
            /\ batch_result' = Tally(batch_result, result)
            /\ should_stop' = (~result.success /\ stop_on_error)
            /\ completed' = completed + 1
            /\ callbackCalls' = IF progress_callback # "none"
                                THEN callbackCalls + 1 ELSE callbackCalls
            /\ bpc' = IF NotifyProgress(progress_callback) = "raise" THEN "raised"
                      ELSE IF yielded' = 1..nPaths THEN "returned" ELSE "running"
    /\ UNCHANGED <<nPaths, retries, auto_compress, workers, stop_on_error,
                   progress_callback, task, startedAfterStop, remoteCalls, compressCalls,
                   missingSeen, temp_files>>
    /\ UNCHANGED <<paths, prev>>
    /\ UNCHANGED <<sessionVars, imageVars>>

(***************************************************************************)
(* upload_batch through a host with native batch support: every item is    *)
(* compressed, the compressed paths go to the host's batch call in one     *)
(* list, the URLs it returns are mapped back to the original paths, and    *)
(* the temp files are removed whatever the host did.                       *)
(***************************************************************************)
\* the images of a native batch: small, compressed at the first try, not compressible
NativeImages ==
    {[size |-> sz, ext |-> x, opens |-> TRUE, enc |-> MAX_IMAGE_SIZE, gain |-> 0,
      save |-> "written"] :
        sz \in {MAX_IMAGE_SIZE, MAX_IMAGE_SIZE + 1}, x \in {"jpg", "gif"}}

\* upload_batch(paths) with such a host, up to the first compression
UploadBatchNative(n) ==
    /\ bpc = "idle"
    /\ nPaths' = n
    /\ auto_compress' = TRUE
    /\ batch_result' = BatchUploadResult(n)
    /\ IF n = 0
       THEN /\ bpc' = "returned"
            /\ task' = <<>>
       ELSE /\ bpc' = "compressing"
            /\ task' = [t \in 1..n |-> [st |-> "pending", out |-> NoOutput]]
    /\ UNCHANGED <<retries, workers, stop_on_error, progress_callback, yielded,
                   should_stop, completed, startedAfterStop, remoteCalls, compressCalls,
                   callbackCalls, missingSeen, temp_files>>
    /\ paths' = [t \in 1..n |-> t]
    /\ UNCHANGED prev
    /\ UNCHANGED <<sessionVars, imageVars>>

\* the next item is compressed: it stays as it is, becomes a temp file, or fails
CompressItem(t, img) ==
    /\ bpc = "compressing"
    /\ t \in Pending
    /\ \A u \in Pending : t <= u
    /\ LET c == compress_image_to_size(img, MAX_IMAGE_SIZE) IN
       /\ compressCalls' = compressCalls + 1
       /\ temp_files' = IF c.kind = "return" /\ c.was_compressed
                        THEN temp_files \cup {t} ELSE temp_files
       /\ task' = [task EXCEPT ![t] =
                      IF c.kind = "return"
                      THEN [st |-> "running", out |-> NoOutput]
                      ELSE [st |-> "done",
                            out |-> Gives([UploadResult(t) EXCEPT
                                              !.error = ErrorText("Cannot compress", t, 0)])]]
    /\ bpc' = IF Pending = {t} THEN "delegated" ELSE "compressing"
    /\ UNCHANGED <<nPaths, retries, auto_compress, workers, stop_on_error,
                   progress_callback, yielded, should_stop, completed, batch_result,
                   startedAfterStop, remoteCalls, callbackCalls, missingSeen>>
    /\ UNCHANGED <<paths, prev>>
    /\ UNCHANGED <<sessionVars, imageVars>>

\* the temp file the compression of path t gave back, and the path handed to the host
TempPath(t) == MaxPaths + 1 + t
HandedPath(t) == IF t \in temp_files THEN TempPath(t) ELSE t

\* mutant: the results are keyed by the paths the host was given
NativeResult_Unmapped(t, answered) ==
    IF task[t].st = "done" THEN task[t].out.result
    ELSE IF HandedPath(t) \in answered
    THEN [UploadResult(HandedPath(t)) EXCEPT !.url = FileUrl(HandedPath(t)),
                                             !.success = TRUE,
                                             !.compressed = (t \in temp_files)]
    ELSE [UploadResult(HandedPath(t)) EXCEPT !.error = ErrorText("Upload failed", t, 0)]

\* the result of item t once the host has returned URLs for the handed paths of
\* `answered`: the URL of the handed path, under the original path
NativeResult(t, answered) ==
    IF task[t].st = "done" THEN task[t].out.result
    ELSE IF HandedPath(t) \in answered
    THEN [UploadResult(t) EXCEPT !.url = FileUrl(HandedPath(t)), !.success = TRUE,
                                 !.compressed = (t \in temp_files)]
    ELSE [UploadResult(t) EXCEPT !.error = ErrorText("Upload failed", t, 0)]

RECURSIVE TallyAll(_, _, _)
TallyAll(b, t, answered) ==
    IF t > nPaths THEN b
    ELSE TallyAll(Tally(b, NativeResult(t, answered)), t + 1, answered)

\* mutant: the temp files stay when the host's batch call is over
HostBatch_NoCleanup(answered) ==
    /\ bpc = "delegated"
    /\ answered \subseteq {HandedPath(t) : t \in Running}
    /\ remoteCalls' = IF Running # {} THEN remoteCalls + 1 ELSE remoteCalls
    /\ task' = [t \in 1..nPaths |-> [st |-> "done", out |-> Gives(NativeResult(t, answered))]]
    /\ batch_result' = TallyAll(batch_result, 1, answered)
    /\ UNCHANGED temp_files
    /\ bpc' = "returned"
    /\ UNCHANGED <<nPaths, retries, auto_compress, workers, stop_on_error,
                   progress_callback, yielded, should_stop, completed,
                   startedAfterStop, compressCalls, callbackCalls, missingSeen>>
    /\ UNCHANGED <<paths, prev>>
    /\ UNCHANGED <<sessionVars, imageVars>>

\* the host's batch call on the compressed paths: it returns URLs for the paths of
\* `answered` (none when it raises); the results are built and the temp files removed
HostBatch(answered) ==
    /\ bpc = "delegated"
    /\ answered \subseteq {HandedPath(t) : t \in Running}
    /\ remoteCalls' = IF Running # {} THEN remoteCalls + 1 ELSE remoteCalls
    /\ task' = [t \in 1..nPaths |-> [st |-> "done", out |-> Gives(NativeResult(t, answered))]]
    /\ batch_result' = TallyAll(batch_result, 1, answered)
    /\ temp_files' = {}
    /\ bpc' = "returned"
    /\ UNCHANGED <<nPaths, retries, auto_compress, workers, stop_on_error,
                   progress_callback, yielded, should_stop, completed,
                   startedAfterStop, compressCalls, callbackCalls, missingSeen>>
    /\ UNCHANGED <<paths, prev>>
    /\ UNCHANGED <<sessionVars, imageVars>>

(***************************************************************************)
(* Specifications.                                                         *)
(***************************************************************************)
vars == <<sessionVars, batchVars, imageVars>>

Init == InitSession /\ InitBatch /\ InitImage

\* one publishing session
Next ==
    \/ \E d \in Docs : PublishMarkdown(d)
    \/ \E how \in SaveOutcomes : CreatePageOK(how)
    \/ \E e \in Msgs : CreatePageFail(e)
    \/ \E how \in SaveOutcomes : EditPageOK(how)
    \/ \E e \in Msgs, how \in SaveOutcomes : EditPageFail(e, how)

Spec == Init /\ [][Next]_vars

\* one upload_batch call, the session being as constructed
InitUploader ==
    /\ InitSession
    /\ skip_duplicate
    /\ cacheFile = FileMissing
    /\ InitBatch
    /\ InitImage

NextBatch ==
    \/ \E n \in 0..MaxPaths, r \in 1..MaxRetries, compressing \in BOOLEAN,
          w \in 1..MaxWorkers, cb \in {"none", "ok", "raises"}, stop \in BOOLEAN :
          UploadBatch(n, r, compressing, w, cb, stop)
    \/ \E t \in 1..nPaths : WorkerStart(t)
    \/ \E t \in 1..nPaths : \E env \in UploadEnvs(retries) : WorkerDone(t, env)
    \/ \E t \in 1..nPaths : Collect(t)

SpecBatch == InitUploader /\ [][NextBatch]_vars

\* the results a caller may hand to retry_failed: one result per file of a subset of the
\* files 1..MaxPaths, in the order they completed (here the later file first), each
\* a success or a failure
RECURSIVE Descending(_)
Descending(S) ==
    IF S = {} THEN <<>>
    ELSE LET m == CHOOSE x \in S : \A y \in S : y <= x IN <<m>> \o Descending(S \ {m})

PrevResult(S, ok) ==
    LET order == Descending(S) IN
    [total |-> Cardinality(S), successful |-> Cardinality(ok),
     failed |-> Cardinality(S \ ok),
     results |-> [k \in 1..Len(order) |->
                    IF order[k] \in ok
                    THEN [UploadResult(order[k]) EXCEPT !.url = FileUrl(order[k]),
                                                       !.success = TRUE, !.attempts = 1]
                    ELSE [UploadResult(order[k]) EXCEPT
                             !.error = ErrorText("Upload failed", order[k], 1),
                             !.attempts = 1]]]

PrevResults == UNION {{PrevResult(S, ok) : ok \in SUBSET S} : S \in SUBSET (1..MaxPaths)}

\* one uploader on which retry_failed is called once
NextRetry ==
    \/ \E p \in PrevResults, compressing \in BOOLEAN, w \in 1..MaxWorkers,
          cb \in {"none", "ok"} : RetryFailed(p, 1, compressing, w, cb)
    \/ \E t \in 1..nPaths : WorkerStart(t)
    \/ \E t \in 1..nPaths : \E env \in UploadEnvs(retries) : WorkerDone(t, env)
    \/ \E t \in 1..nPaths : Collect(t)

SpecRetry == InitUploader /\ [][NextRetry]_vars

\* one publishing session over the documents of several lines
InitLined ==
    /\ InitSession
    /\ skip_duplicate => cacheFile = FileMissing
    /\ InitBatch
    /\ InitImage

NextLined ==
    \/ \E d \in LinedDocs : PublishMarkdown(d)
    \/ \E how \in SaveOutcomes : CreatePageOK(how)
    \/ \E e \in Msgs : CreatePageFail(e)
    \/ \E how \in SaveOutcomes : EditPageOK(how)
    \/ \E e \in Msgs, how \in SaveOutcomes : EditPageFail(e, how)

SpecLined == InitLined /\ [][NextLined]_vars

\* one publishing session of texts and galleries
GalleryDocs == {DocSmall, DocTwo}

NextGallery ==
    \/ \E d \in GalleryDocs : PublishMarkdown(d)
    \/ \E n \in GallerySizes : PublishOptimizedGallery(n, Title2)
    \/ \E n \in {0, 1} : PublishZipGallery(n, Title2)
    \/ \E how \in SaveOutcomes : CreatePageOK(how)
    \/ \E e \in Msgs : CreatePageFail(e)
    \/ GalleryCreateOK
    \/ \E e \in Msgs : GalleryCreateFail(e)
    \/ \E how \in SaveOutcomes : EditPageOK(how)
    \/ \E e \in Msgs, how \in SaveOutcomes : EditPageFail(e, how)

SpecGallery == InitUploader /\ [][NextGallery]_vars

\* one upload_batch call through a host with native batch support
NextNative ==
    \/ \E n \in 0..MaxPaths : UploadBatchNative(n)
    \/ \E t \in 1..nPaths : \E img \in NativeImages : CompressItem(t, img)
    \/ \E answered \in SUBSET (1..(2 * MaxPaths + 1)) : HostBatch(answered)

SpecNative == InitUploader /\ [][NextNative]_vars

\* one call of compress_image_to_size
NextCompress == \E max \in MaxSizes : \E img \in Images(max) : CompressImage(img, max)

SpecCompress == InitUploader /\ [][NextCompress]_vars

\* one call of _upload_with_retry: initial delays of 1 s and 20 s, caps of half a
\* second, 3 s and the default 30 s
RetryDelays == {1000, 20000}
RetryCaps == {500, 3000, 30000}

NextBackoff ==
    \/ \E r \in 1..MaxAttempts, d \in RetryDelays, m \in RetryCaps : UploadWithRetry(r, d, m)
    \/ AttemptOK
    \/ \E jitter \in Jitters(retry_loop.delay) : AttemptFail(jitter)

SpecBackoff == InitUploader /\ [][NextBackoff]_vars

(***************************************************************************)
(* Two sessions in two processes over the one CACHE_FILE. Each loaded the  *)
(* file when it was constructed (skip_duplicate on) and publishes one      *)
(* document; the creation and linking of its pages is one step here. A     *)
(* save is open(CACHE_FILE, 'w'), which empties the file, and then the     *)
(* write of the buffered text when the with block closes the file, at      *)
(* offset 0 of this process's own handle.                                  *)
(***************************************************************************)
FileEmptied == [state |-> "emptied", table |-> {}]

PeerIds == {1, 2}
PeerDocs == {DocSmall, DocTwo, DocLong}
NoPeer == [pc |-> "idle", table |-> {}, doc |-> NoDoc, url |-> NoUrl]

InitPeers ==
    /\ InitSession
    /\ skip_duplicate
    /\ cacheFile = FileMissing
    /\ InitBatch
    /\ cpc = "idle"
    /\ image = NoImage
    /\ max_size = 0
    /\ compressed = NoCompressed
    /\ retry_loop = NoLoop
    /\ \E file \in InitialCacheFiles :
          peers = [file |-> file,
                   s |-> [i \in PeerIds |-> [NoPeer EXCEPT !.table = _load_cache(file)]],
                   saved |-> <<>>,
                   pages |-> 0]

PeerUnchanged ==
    /\ UNCHANGED <<cpc, image, max_size, compressed, retry_loop>>
    /\ UNCHANGED <<sessionVars, batchVars>>

\* publish_markdown up to the cache check: a known fingerprint returns its URL
PeerPublish(i, d) ==
    /\ peers.s[i].pc = "idle"
    /\ LET key == ContentKey(d, TRUE)
           me == peers.s[i]
       IN  peers' = [peers EXCEPT !.s[i] =
                        IF InTable(me.table, key)
                        THEN [me EXCEPT !.pc = "done", !.doc = d,
                                        !.url = Lookup(me.table, key)]
                        ELSE [me EXCEPT !.pc = "publishing", !.doc = d]]
    /\ PeerUnchanged

\* every page was created and the linking has ended:
\* self._cache[content_key] = result_url
PeerCreated(i) ==
    /\ peers.s[i].pc = "publishing"
    /\ LET me == peers.s[i]
           url == Url(peers.pages + 1)
       IN  peers' = [peers EXCEPT
                        !.pages = @ + Len(split_chunks(me.doc.content)),
                        !.s[i] = [me EXCEPT
                                     !.pc = "saving",
                                     !.url = url,
                                     !.table = Store(@, ContentKey(me.doc, TRUE), url)]]
    /\ PeerUnchanged

\* a page could not be created: the publish raises, nothing is stored
PeerAbort(i) ==
    /\ peers.s[i].pc = "publishing"
    /\ peers' = [peers EXCEPT !.s[i].pc = "raised"]
    /\ PeerUnchanged

\* _save_cache: open(CACHE_FILE, 'w') empties the file, or raises and the
\* except clause passes
PeerOpen(i, opened) ==
    /\ peers.s[i].pc = "saving"
    /\ peers' = IF opened
                THEN [peers EXCEPT !.file = FileEmptied, !.s[i].pc = "writing"]
                ELSE [peers EXCEPT !.s[i].pc = "done"]
    /\ PeerUnchanged

\* mutant: the save is one indivisible replacement of the file
PeerWritten_Atomic(file, table, longer) == FileOf(table)

\* the file after this process wrote its text at offset 0: its table, unless the other
\* process wrote since this one emptied the file and its text was longer, which
\* leaves the other text's tail behind this one
PeerWritten(file, table, longer) ==
    IF file.state = "emptied" \/ ~longer THEN FileOf(table) ELSE FileCorrupt

\* _save_cache: json.dump and the close of the file
PeerWrite(i, longer) ==
    /\ peers.s[i].pc = "writing"
    /\ peers' = [peers EXCEPT
                    !.file = PeerWritten(peers.file, peers.s[i].table, longer),
                    !.saved = Append(@, i),
                    !.s[i].pc = "done"]
    /\ PeerUnchanged

NextPeers ==
    \/ \E i \in PeerIds, d \in PeerDocs : PeerPublish(i, d)
    \/ \E i \in PeerIds : PeerCreated(i)
    \/ \E i \in PeerIds : PeerAbort(i)
    \/ \E i \in PeerIds, opened \in BOOLEAN : PeerOpen(i, opened)
    \/ \E i \in PeerIds, longer \in BOOLEAN : PeerWrite(i, longer)

SpecPeers == InitPeers /\ [][NextPeers]_vars

\* one publishing session of one-page documents, two of which differ in content and
\* in title and are equal in content + title
DocTail == [content |-> Run("a", 12) \o Run("t", 1), title |-> Run("t", 1)]
DocHead == [content |-> Run("a", 12), title |-> Run("t", 2)]
JoinedDocs == {DocSmall, DocTail, DocHead}

NextJoined ==
    \/ \E d \in JoinedDocs : PublishMarkdown(d)
    \/ \E how \in SaveOutcomes : CreatePageOK(how)
    \/ \E e \in Msgs : CreatePageFail(e)

SpecJoined == InitUploader /\ [][NextJoined]_vars

(***************************************************************************)
(* publish_markdown up to the end of its chunker, over the texts.          *)
(***************************************************************************)
InitChunker ==
    /\ InitBatch
    /\ InitImage
    /\ skip_duplicate = FALSE
    /\ cacheFile = FileMissing
    /\ cache = {}
    /\ pc = "read"
    /\ doc \in [content : Texts, title : {Title1}]
    /\ content_key = NoKey
    /\ chunks = <<>>
    /\ idx = 0
    /\ attempt = 0
    /\ pages_info = <<>>
    /\ link_idx = 0
    /\ link_attempt = 0
    /\ failed_links = <<>>
    /\ nextPage = 1
    /\ lastCall = NoCall
    /\ lastSleep = 0
    /\ nCreate = 0
    /\ nEdit = 0
    /\ editDone = {}
    /\ editTried = {}
    /\ hist = <<>>
    /\ last = NoOutcome
    /\ failures = 0

\* the blank check and the chunker
SplitContent ==
    /\ pc = "read"
    /\ IF IsBlank(doc.content)
       THEN pc' = "rejected" /\ UNCHANGED chunks
       ELSE pc' = "split" /\ chunks' = split_chunks(doc.content)
    /\ UNCHANGED <<skip_duplicate, cache, cacheFile, doc, content_key, idx, attempt,
                   pages_info, link_idx, link_attempt, failed_links, nextPage, lastCall,
                   lastSleep, nCreate, nEdit, editDone, editTried, hist, last, failures>>
    /\ UNCHANGED <<batchVars, imageVars>>

NextChunker == SplitContent

SpecChunker == InitChunker /\ [][NextChunker]_vars

(***************************************************************************)
(* Claims about the publishing session (Spec).                             *)
(***************************************************************************)
\* the latest publish has ended and `last` describes it
Ended == pc = "idle" /\ last # NoOutcome

\* earlier publishes of the document of hist[b] that returned a URL
EarlierUrls(b) ==
    {hist[a].url : a \in {j \in 1..(b - 1) : hist[j].doc = hist[b].doc /\ hist[j].kind = "url"}}

\* create_page calls issued for document d by all the publishes so far
RECURSIVE CreatesFor(_, _)
CreatesFor(d, k) ==
    IF k = 0 THEN 0
    ELSE (IF hist[k].doc = d THEN hist[k].creates ELSE 0) + CreatesFor(d, k - 1)

CreateFails == pc = "creating" /\ failures' = failures + 1

\* C7: when create_page for page k fails for the fifth time in a row, the publish
\* ends with an error stating the k-1 pages created and the URL of the first of
\* them ('none' when k = 1), no page is edited and no further page is created;
\* before the fifth failure the publish goes on with the same page.
C7_AbortReportsProgress ==
    [][CreateFails =>
         IF attempt = 4
         THEN /\ pc' = "idle"
              /\ last'.ret.kind = "RuntimeError"
              /\ last'.ret.part = idx
              /\ last'.ret.attempts = 5
              /\ last'.ret.published = idx - 1
              /\ last'.ret.published = Len(pages_info)
              /\ last'.ret.first = (IF idx = 1 THEN NoUrl ELSE pages_info[1].url)
              /\ last'.edits = 0
              /\ nextPage' = nextPage
              /\ cache' = cache
         ELSE /\ attempt < 4
              /\ pc' = "creating"
              /\ idx' = idx
              /\ attempt' = attempt + 1
              /\ last' = NoOutcome]_vars

\* C7 witness: the publish was given up at page 2, one page having been created
C7_Witness ==
    /\ Ended
    /\ last.ret.kind = "RuntimeError"
    /\ last.ret.part = 2
    /\ last.ret.published = 1
    /\ last.ret.first # NoUrl
    /\ lastCall.op = "create" /\ ~lastCall.ok /\ lastCall.part = 2

\* a create_page call has failed and the publish goes on
CreateRetrying == pc = "creating" /\ lastCall.op = "create" /\ ~lastCall.ok

\* C8 (as stated): after a failed create_page whose message contains "Retry in N",
\* attempts remaining, the session has slept N+1 seconds and the same page is
\* next; without the hint it has slept the fixed delay.
C8_HintAlone ==
    CreateRetrying =>
       /\ idx = lastCall.part
       /\ lastSleep = IF RetryInMatch(lastCall.msg) # NoMatch
                      THEN (RetryInMatch(lastCall.msg) + 1) * 1000
                      ELSE 2000

\* C8 (amended): after a failed create_page, attempts remaining, the session has
\* slept N+1 seconds when the message contains both "Flood control" and
\* "Retry in N", and 2 seconds otherwise (also for a "Retry in N" without
\* "Flood control"); the same page is the next one attempted.
C8_FloodHint ==
    CreateRetrying =>
       /\ idx = lastCall.part
       /\ attempt >= 1
       /\ lastCall.msg = MsgFloodHint => lastSleep = 8000
       /\ lastCall.msg \in {MsgHintOnly, MsgOther} => lastSleep = 2000

\* C8 witness: page 2 is retried 8 seconds after "Flood control ... Retry in 7"
C8_Witness ==
    /\ CreateRetrying
    /\ lastCall.msg = MsgFloodHint
    /\ lastCall.part = 2
    /\ lastSleep = 8000

\* the pages of the document of the latest publish
LastPages == Len(split_chunks(last.doc.content))
\* the latest publish created its pages and returned
Published == Ended /\ last.ret.kind = "url" /\ last.creates > 0
\* a content holds a link to url
HasLink(content, url) ==
    \E k \in 1..Len(content) : content[k].tag \in {"a", "prev", "next"} /\ content[k].href = url

C10_FailedLinksComplete ==
    (Published /\ LastPages >= 2) =>
       \A p \in 1..LastPages :
          p \notin last.linked => \E k \in 1..Len(last.failed_links) : last.failed_links[k] = p

(***************************************************************************)
(* Claims about upload_batch (SpecBatch).                                  *)
(***************************************************************************)
Results == batch_result.results
ResultOf(t) == task[t].out.result

\* C2 (as stated): the result of upload_batch has total = len(paths),
\* successful + failed = total and len(results) = total, with or without
\* stop_on_error.
C2_TotalsAlways ==
    bpc = "returned" =>
       /\ batch_result.total = nPaths
       /\ batch_result.successful + batch_result.failed = batch_result.total
       /\ Len(Results) = batch_result.total

\* C2 (amended): the result of upload_batch has total = len(paths) and
\* successful + failed = len(results) <= total; len(results) = total when
\* stop_on_error is off or no item failed, and with stop_on_error set nothing is
\* recorded after the first failure.
C2_Totals ==
    bpc = "returned" =>
       /\ batch_result.total = nPaths
       /\ batch_result.successful + batch_result.failed = Len(Results)
       /\ Len(Results) <= batch_result.total
       /\ completed = Len(Results)
       /\ (~stop_on_error \/ batch_result.failed = 0) => Len(Results) = batch_result.total
       /\ stop_on_error => batch_result.failed <= 1
       /\ (stop_on_error /\ batch_result.failed = 1) => ~Results[Len(Results)].success

\* C2 witness: a batch of three, all failing, came back whole
C2_Witness ==
    /\ bpc = "returned"
    /\ nPaths = 3
    /\ ~stop_on_error
    /\ batch_result.failed = 3
    /\ Len(Results) = 3

\* C3: with stop_on_error set, no task is started once a failed result has been
\* observed.
C3_NothingStartsAfterStop ==
    stop_on_error => startedAfterStop = {}

UploadOutcomes ==
    {UploadReturns(FileUrl(1), 1, 0)}
    \cup {UploadRaises(x, ErrorText("message", 1, 0), 0, 0) : x \in ExceptionClasses}

\* C5: upload_safe gives an UploadResult for every input, whatever upload returns
\* or raises; upload_batch never raises, and when it returns every task has run.
C5_NeverRaises ==
    /\ \A up \in UploadOutcomes : \A gone \in BOOLEAN :
          upload_safe(1, up, [later_exists |-> ~gone, later_size |-> MAX_IMAGE_SIZE]).kind
             = "result"
    /\ bpc # "raised"
    /\ \A t \in Done : task[t].out.kind = "result" /\ ResultOf(t).path = t
    /\ bpc = "returned" => Done = 1..nPaths

\* C5 witness: a batch of three came back although items failed
C5_Witness ==
    /\ bpc = "returned"
    /\ nPaths = 3
    /\ Done = {1, 2, 3}
    /\ batch_result.failed >= 1

\* url and error of a result agree with its success flag
Consistent(result) ==
    /\ result.success <=> (result.url # NoUrl)
    /\ (result.url # NoUrl) # (result.error # NoError)

LinkRetrying == pc = "linking" /\ lastCall.op = "edit" /\ ~lastCall.ok

\* C11: an edit_page error never ends the publish: while linking, a failed edit is
\* followed by another attempt for the same page or, its three attempts used up,
\* by the next page; a publish whose pages were all created returns the URL of its
\* first page, edit_page having been called for every one of its pages; the only
\* errors a publish raises are the ValidationError of a blank document and the
\* RuntimeError of a failed create_page.
C11_LinkingNeverAborts ==
    /\ LinkRetrying =>
          /\ link_idx \in 1..Len(pages_info)
          /\ \/ link_idx = lastCall.part /\ link_attempt \in 1..(LINK_MAX_RETRIES - 1)
             \/ link_idx = lastCall.part + 1 /\ link_attempt = 0
          /\ editTried = 1..lastCall.part
    /\ pc = "linking" => editTried \in {1..(link_idx - 1), 1..link_idx}
    /\ (Published /\ LastPages >= 2) =>
          /\ editTried = 1..LastPages
          /\ Len(pages_info) = LastPages
          /\ last.ret.url = pages_info[1].url
          /\ last.edits >= LastPages
    /\ (Ended /\ last.ret.kind # "url") =>
          \/ last.ret.kind = "ValidationError" /\ last.creates = 0 /\ last.edits = 0
          \/ /\ last.ret.kind = "RuntimeError"
             /\ lastCall.op = "create" /\ ~lastCall.ok
             /\ last.edits = 0 /\ editTried = {}

\* C11 witness: page 1 of three was given up after three failed edits, pages 2 and 3
\* were linked, and the publish returned the URL of page 1
C11_Witness ==
    /\ Published
    /\ LastPages = 3
    /\ last.linked = {2, 3}
    /\ last.edits = 5
    /\ editTried = {1, 2, 3}
    /\ last.ret.url = pages_info[1].url

(***************************************************************************)
(* Claims about the chunker (SpecChunker).                                 *)
(***************************************************************************)
\* no line of the text, its line end included, is longer than the chunk size
NoLongLine(t) ==
    \A k \in 1..Len(splitlines(t)) : StrLen(splitlines(t)[k]) <= SAFE_CHUNK_SIZE

\* C12: for a text none of whose lines is longer than SAFE_CHUNK_SIZE, the chunks
\* concatenated in order are the text, character for character.
C12_ChunksRebuildText ==
    (pc = "split" /\ NoLongLine(doc.content)) => StrJoin(chunks) = doc.content

\* C12 witness: a text of three lines, none too long, was split into two chunks,
\* the first holding two lines
C12_Witness ==
    /\ pc = "split"
    /\ NoLongLine(doc.content)
    /\ Len(splitlines(doc.content)) = 3
    /\ Len(chunks) = 2
    /\ StrLen(chunks[1]) = 8000
    /\ StrJoin(chunks) = doc.content

(***************************************************************************)
(* C13: the pages of a long text without over-long lines.                  *)
(***************************************************************************)
CeilDiv(a, b) == (a + b - 1) \div b

\* the text of page k as it was sent to create_page
PageText(k) == pages_info[k].content[1].body

\* the last publish was of a text longer than one chunk with no over-long line
LongLined ==
    /\ Published
    /\ NoLongLine(last.doc.content)
    /\ StrLen(last.doc.content) > SAFE_CHUNK_SIZE

GoodEnvs(r) ==
    {env \in UploadEnvs(r) :
        env.exists /\ env.later_exists /\ env.size <= MAX_IMAGE_SIZE
        /\ env.later_size <= MAX_IMAGE_SIZE}

\* task t gave what upload_safe gives in environment env
RanWith(t, env) ==
    task[t].out = upload_safe(t, upload(t, retries, auto_compress, env), env)

\* the tasks may have run with the remote upload failing on every attempt for the
\* paths of F and succeeding at once for the others
RemoteFailsFor(F) ==
    \A t \in 1..nPaths : \E env \in GoodEnvs(retries) :
        /\ RanWith(t, env)
        /\ IF t \in F THEN \A k \in 1..retries : ~env.remote[k] ELSE env.remote[1]

\* C14: when the remote upload always fails for the paths of F and succeeds for the
\* others, upload_batch returns total = n, successful = n - |F|, failed = |F| and
\* get_failed_paths() = F.
C14_PartialFailure ==
    (bpc = "returned" /\ ~stop_on_error) =>
        \A F \in SUBSET (1..nPaths) :
            RemoteFailsFor(F) =>
                /\ batch_result.total = nPaths
                /\ batch_result.successful = nPaths - Cardinality(F)
                /\ batch_result.failed = Cardinality(F)
                /\ get_failed_paths(batch_result) = F

(***************************************************************************)
(* C15: a session constructed with skip_duplicate = False.                 *)
(***************************************************************************)
\* C15: with skip_duplicate off the table stays empty and the cache file stays as it
\* was found, no publish is answered from the cache, and every publish of a non-blank
\* document issues create_page: publishing the same document again creates its pages
\* again.
C15_NoCacheWithoutDedup ==
    ~skip_duplicate =>
        /\ cache = {}
        /\ cacheFile = FileOf({OldEntry})
        /\ content_key = NoKey
        /\ \A k \in 1..Len(hist) :
              /\ ~IsBlank(hist[k].doc.content) => hist[k].creates >= 1
              /\ hist[k].kind = "url" =>
                    /\ hist[k].creates >= Len(split_chunks(hist[k].doc.content))
                    /\ hist[k].url \notin {e.url : e \in cacheFile.table}
                    /\ \A j \in 1..(k - 1) : hist[j].url # hist[k].url

\* C15 witness: the document whose fingerprint the cache file holds was published
\* twice, each time with a create_page call and a new URL
C15_Witness ==
    /\ ~skip_duplicate
    /\ Len(hist) = 2
    /\ hist[1].doc = DocSmall /\ hist[2].doc = DocSmall
    /\ hist[1].kind = "url" /\ hist[2].kind = "url"
    /\ hist[1].creates = 1 /\ hist[2].creates = 1
    /\ hist[1].url # hist[2].url
    /\ InTable(cacheFile.table, content_hash(StrCat(DocSmall.content, DocSmall.title)))

(***************************************************************************)
(* C16: failures of the cache file.                                        *)
(***************************************************************************)
\* the fingerprint of a document
KeyOf(d) == content_hash(StrCat(d.content, d.title))

\* C16: problems with the cache file never fail a publish. A missing or unparsable
\* file gives an empty table, so the first publish is answered from the cache only
\* when the file was read and holds the document; a publish raises nothing but the
\* ValidationError of a blank document and the RuntimeError of a failed create_page;
\* a publish whose pages were created returns the URL of its first page and keeps
\* the entry in memory, whatever became of the write of the file.
C16_CacheFailuresSwallowed ==
    /\ (skip_duplicate /\ hist = <<>> /\ cacheFile.state # "ok") => cache = {}
    /\ (skip_duplicate /\ hist = <<>> /\ cacheFile.state = "ok") => cache = cacheFile.table
    /\ (Len(hist) = 1 /\ hist[1].kind = "url" /\ hist[1].creates = 0) =>
          /\ cacheFile.state = "ok"
          /\ InTable(cacheFile.table, KeyOf(hist[1].doc))
    /\ Ended =>
          \/ last.ret.kind = "url"
          \/ last.ret.kind = "ValidationError" /\ IsBlank(last.doc.content)
          \/ last.ret.kind = "RuntimeError" /\ lastCall.op = "create" /\ ~lastCall.ok
    /\ Published =>
          /\ last.ret.url = pages_info[1].url
          /\ last.creates >= LastPages
          /\ skip_duplicate =>
                /\ InTable(cache, KeyOf(last.doc))
                /\ Lookup(cache, KeyOf(last.doc)) = last.ret.url

\* C16 witness: a publish returned its URL and the entry is in memory while the cache
\* file is unparsable, its write having failed
C16_Witness ==
    /\ Published
    /\ skip_duplicate
    /\ last.ret.url = pages_info[1].url
    /\ cacheFile = FileCorrupt
    /\ InTable(cache, KeyOf(last.doc))

(***************************************************************************)
(* C17: the attempts of one upload.                                        *)
(***************************************************************************)
\* the attempts at which the remote upload answers
Answering(env, r) == {k \in 1..r : env.remote[k]}

\* what the claim expects of upload(path, retries=r) in environment env
AsRetried(up, path, r, env) ==
    /\ up.remote <= r
    /\ Answering(env, r) # {} =>
          /\ up.kind = "return"
          /\ up.url = FileUrl(path)
          /\ up.remote \in Answering(env, r)
          /\ \A k \in Answering(env, r) : up.remote <= k
    /\ Answering(env, r) = {} =>
          /\ up.kind = "raise"
          /\ up.exc = "UploadError"
          /\ up.remote = r
          /\ up.error.path = path
          /\ up.error.attempts = r

\* C17: upload(path, retries=r) calls the remote upload at most r times and stops at
\* the first success, returning the URL; when all r attempts fail it raises an
\* UploadError that names the original path and r. The same is seen in the results
\* of a batch.
C17_AtMostRetries ==
    /\ \A r \in 1..MaxRetries : \A env \in GoodEnvs(r) : \A compressing \in BOOLEAN :
          AsRetried(upload(1, r, compressing, env), 1, r, env)
    /\ \A t \in Done : \A env \in GoodEnvs(retries) :
          (RanWith(t, env) /\ Answering(env, retries) = {}) =>
              /\ ResultOf(t).error.path = t
              /\ ResultOf(t).error.attempts = retries

(***************************************************************************)
(* C19: the size boundary of compress_image_to_size.                       *)
(***************************************************************************)
\* C19: a file of exactly max_size bytes comes back as the same path with
\* was_compressed false; a file of max_size + 1 bytes enters compression (it is never
\* returned as it is: either a new file comes back with was_compressed true, or
\* ConversionError is raised); whenever a path comes back with was_compressed true the
\* file at that path is a new one of at most max_size bytes.
C19_CompressionBoundary ==
    cpc = "done" =>
        /\ image.size = max_size =>
              compressed = Compressed("image_path", FALSE, max_size)
        /\ image.size = max_size + 1 =>
              \/ /\ compressed.kind = "return"
                 /\ compressed.was_compressed
              \/ /\ compressed.kind = "raise"
                 /\ compressed.exc = "ConversionError"
        /\ (compressed.kind = "return" /\ compressed.was_compressed) =>
              /\ compressed.path = "temp_path"
              /\ compressed.size <= max_size
              /\ image.size > max_size
        /\ (compressed.kind = "return" /\ ~compressed.was_compressed) =>
              /\ compressed.path = "image_path"
              /\ image.size <= max_size

\* C19 witness: a file one byte over the limit was compressed into a file of exactly
\* max_size bytes, found at the last try of the quality phase
C19_Witness ==
    /\ cpc = "done"
    /\ max_size = MAX_IMAGE_SIZE
    /\ image.size = max_size + 1
    /\ image.enc = max_size + QualityTries - 1
    /\ compressed.kind = "return"
    /\ compressed.was_compressed
    /\ compressed.size = max_size

TitleOf(title, k, total) == IF total > 1 THEN <<title, k, total>> ELSE <<title>>

\* the number of pages of a document, fixed before the first create_page call
PagesOf(d) ==
    IF d.content[1].c = "img"
    THEN CeilDiv(StrLen(d.content), MAX_IMAGES_PER_PAGE)
    ELSE Len(split_chunks(d.content))

\* C20: in the text path and in the gallery paths the k-th create_page call of a
\* publish of `total` pages carries the title "{title} ({k}/{total})" when total > 1
\* and the bare title when total = 1; total is the number of chunks, known before the
\* first call, and k runs from 1 to total in creation order. (publish_zip_gallery never
\* gets as far as create_page.)
C20_PageTitles ==
    /\ pc \in {"creating", "gallery", "linking"} =>
          /\ Len(chunks) = PagesOf(doc)
          /\ Len(pages_info) <= Len(chunks)
          /\ \A k \in 1..Len(pages_info) :
                pages_info[k].title = TitleOf(doc.title, k, Len(chunks))
    /\ pc \in {"creating", "gallery"} =>
          /\ Len(pages_info) = idx - 1
          /\ lastCall.op = "create" =>
                /\ lastCall.title = TitleOf(doc.title, lastCall.part, Len(chunks))
                /\ lastCall.part = IF lastCall.ok THEN idx - 1 ELSE idx
    /\ (Ended /\ last.ret.kind = "url" /\ last.creates > 0) =>
          /\ Len(pages_info) = PagesOf(last.doc)
          /\ \A k \in 1..Len(pages_info) :
                pages_info[k].title = TitleOf(last.doc.title, k, Len(pages_info))
    /\ (Ended /\ last.ret.kind = "TypeError") => last.creates = 0 /\ pages_info = <<>>

\* C20 witness: a gallery of 201 image URLs was published as three pages titled
\* (1/3), (2/3), (3/3)
C20_Witness ==
    /\ Ended
    /\ last.ret.kind = "url"
    /\ last.doc = Gallery(2 * MAX_IMAGES_PER_PAGE + 1, Title2)
    /\ Len(pages_info) = 3
    /\ \A k \in 1..3 : pages_info[k].title = <<Title2, k, 3>>

(***************************************************************************)
(* C21: the result of a native batch.                                      *)
(***************************************************************************)
\* C21: through a host with native batch support upload_batch compresses each item and
\* returns a result with one entry per input path, keyed by the original path and
\* carrying the URL the host returned for the path it was handed; total = len(paths),
\* successful + failed = len(results) = total, successful counts the entries that
\* succeeded, and the URL map and the failed paths split the input paths.
C21_NativeSameShape ==
    bpc = "returned" =>
        LET ok == {k \in 1..Len(Results) : Results[k].success} IN
        /\ compressCalls = nPaths
        /\ batch_result.total = nPaths
        /\ Len(Results) = batch_result.total
        /\ batch_result.successful + batch_result.failed = batch_result.total
        /\ batch_result.successful = Cardinality(ok)
        /\ \A k \in 1..Len(Results) :
              /\ Results[k].path = k
              /\ Results[k].success <=> (Results[k].url # NoUrl)
              /\ Results[k].success =>
                    Results[k].url = FileUrl(IF Results[k].compressed THEN TempPath(k) ELSE k)
        /\ {e.path : e \in get_url_map(batch_result)} = ok
        /\ get_failed_paths(batch_result) = (1..nPaths) \ ok

\* C21 witness: a native batch of two came back; the first item went to the host as a
\* temp file, the second as it was, and both URLs are found under the original paths
C21_Witness ==
    /\ bpc = "returned"
    /\ nPaths = 2
    /\ batch_result.successful = 2
    /\ Results[1].path = 1 /\ Results[1].compressed /\ Results[1].url = FileUrl(TempPath(1))
    /\ Results[2].path = 2 /\ ~Results[2].compressed /\ Results[2].url = FileUrl(2)
    /\ {e.path : e \in get_url_map(batch_result)} = {1, 2}

(***************************************************************************)
(* C22: retry_failed.                                                      *)
(***************************************************************************)
FailedOf(b) == {k \in 1..Len(b.results) : ~b.results[k].success}
SucceededPaths(b) == {b.results[k].path : k \in (1..Len(b.results)) \ FailedOf(b)}

\* C22: retry_failed(prev) starts one upload per failed result of prev, over exactly the
\* paths prev.get_failed_paths() gives and none that succeeded in prev, so the total of
\* its result is the number of failed results of prev; when prev has no failure it
\* returns an empty result (total 0) and no upload is attempted.
C22_RetriesOnlyFailed ==
    prev # NoPrev =>
        /\ batch_result.total = Cardinality(FailedOf(prev))
        /\ Len(task) = Cardinality(FailedOf(prev))
        /\ FailedOf(prev) # {} =>
              /\ {paths[t] : t \in 1..Len(task)} = get_failed_paths(prev)
              /\ \A t \in 1..Len(task) : paths[t] \notin SucceededPaths(prev)
        /\ \A t \in Done : task[t].out.kind = "result" /\ ResultOf(t).path = paths[t]
        /\ \A k \in 1..Len(Results) : Results[k].path \in get_failed_paths(prev)
        /\ bpc = "returned" =>
              /\ Len(Results) = Cardinality(FailedOf(prev))
              /\ {Results[k].path : k \in 1..Len(Results)} = get_failed_paths(prev)
        /\ FailedOf(prev) = {} =>
              /\ bpc = "returned"
              /\ batch_result = BatchUploadResult(0)
              /\ task = <<>>
              /\ remoteCalls = 0 /\ compressCalls = 0 /\ callbackCalls = 0

\* C22 witness: prev had file 3 succeed and files 2 and 1 fail; the retry has returned
\* with two results, for files 2 and 1
C22_Witness ==
    /\ bpc = "returned"
    /\ Len(prev.results) = 3
    /\ SucceededPaths(prev) = {3}
    /\ paths = <<2, 1>>
    /\ batch_result.total = 2
    /\ {Results[k].path : k \in 1..Len(Results)} = {1, 2}

\* C22 witness of the other case: prev had two successes and no failure, and the retry
\* returned the empty result with no task
C22_WitnessNothing ==
    /\ bpc = "returned"
    /\ SucceededPaths(prev) = {1, 2}
    /\ FailedOf(prev) = {}
    /\ batch_result.total = 0
    /\ task = <<>>

(***************************************************************************)
(* C23: a progress callback that raises.                                   *)
(***************************************************************************)
\* C23: an exception of progress_callback is swallowed: upload_batch does not raise, the
\* callback is called once per collected result and the loop goes on, so that without
\* stop_on_error every item is collected; and the BatchUploadResult is the one the task
\* outputs alone determine (each result is its task's, counted once as a success or a
\* failure), which is what a batch without callback returns.
C23_CallbackErrorsIgnored ==
    /\ bpc # "raised"
    /\ Len(Results) = completed
    /\ callbackCalls = IF progress_callback = "none" THEN 0 ELSE completed
    /\ \A k \in 1..Len(Results) :
          /\ Results[k].path \in yielded
          /\ Results[k] = ResultOf(Results[k].path)
          /\ \A j \in 1..Len(Results) : Results[j].path = Results[k].path => j = k
    /\ batch_result.successful = Cardinality({k \in 1..Len(Results) : Results[k].success})
    /\ batch_result.failed = Cardinality({k \in 1..Len(Results) : ~Results[k].success})
    /\ bpc = "returned" =>
          /\ batch_result.total = nPaths
          /\ ~stop_on_error => {Results[k].path : k \in 1..Len(Results)} = 1..nPaths
          /\ stop_on_error /\ nPaths > 0 => Len(Results) >= 1

\* C23 witness: a batch of three with a callback that raised at each of its three calls
\* has returned all three results
C23_Witness ==
    /\ bpc = "returned"
    /\ progress_callback = "raises"
    /\ nPaths = 3
    /\ callbackCalls = 3
    /\ Len(Results) = 3
    /\ batch_result.successful + batch_result.failed = 3

(***************************************************************************)
(* C24: the order of the remote calls of one publish.                      *)
(***************************************************************************)
\* the step issues a remote page call (lastCall' is that call)
RemoteCallStep ==
    /\ lastCall'.op \in {"create", "edit"}
    /\ lastCall' # lastCall \/ failures' # failures

\* C24: within one publish the remote calls are the creates of chunks 1..n in order and
\* then the edits of pages 1..n in order: a create for chunk i is issued only when
\* chunks 1..i-1 have been created and before any edit; an edit only when all n pages
\* exist, for the page last edited or the one after it; each step issues one call, which
\* has returned or raised before the next is issued.
C24_CreateThenLink ==
    [][RemoteCallStep =>
         LET c == lastCall' IN
         /\ c.op = "create" =>
               /\ pc = "creating"
               /\ c.part = Len(pages_info) + 1
               /\ c.part <= Len(chunks)
               /\ \A k \in 1..Len(pages_info) : pages_info[k].part_num = k
               /\ editTried = {} /\ nEdit = 0
               /\ lastCall.op # "edit"
               /\ lastCall.op = "create" =>
                     \/ lastCall.part = c.part /\ ~lastCall.ok
                     \/ lastCall.part + 1 = c.part /\ lastCall.ok
               /\ lastCall.op = "none" => c.part = 1
         /\ c.op = "edit" =>
               /\ pc = "linking"
               /\ Len(pages_info) = Len(chunks)
               /\ Len(chunks) >= 2
               /\ \A k \in 1..Len(pages_info) : pages_info[k].part_num = k
               /\ editTried \in {1..(c.part - 1), 1..c.part}
               /\ lastCall.op = "create" =>
                     lastCall.ok /\ lastCall.part = Len(chunks) /\ c.part = 1
               /\ lastCall.op = "edit" =>
                     \/ lastCall.part = c.part /\ ~lastCall.ok
                     \/ lastCall.part + 1 = c.part
               /\ lastCall.op # "none"
    ]_vars

\* C24 witness: in a publish of three chunks, after a create that had to be retried, the
\* pages 1 and 2 are edited and the edit of page 3 is about to be issued
C24_Witness ==
    /\ pc = "linking"
    /\ Len(chunks) = 3
    /\ Len(pages_info) = 3
    /\ nCreate > 3
    /\ link_idx = 3
    /\ lastCall.op = "edit" /\ lastCall.part = 2
    /\ editTried = {1, 2}

(***************************************************************************)
(* C25: the retry policy of the linking pass.                              *)
(***************************************************************************)
\* the step is an edit_page call that raised
EditFailStep ==
    /\ pc = "linking"
    /\ lastCall'.op = "edit" /\ ~lastCall'.ok
    /\ failures' # failures

\* the same page is tried again
SamePageAgain ==
    pc' = "linking" /\ link_idx' = link_idx /\ link_attempt' = link_attempt + 1

\* C25 (as stated): a failed edit_page call is retried under the policy of page
\* creation: as long as fewer than CREATE_MAX_RETRIES attempts were made the same page
\* is tried again, after the wait creation uses (N+1 seconds on the hint, else its fixed
\* delay).
C25_SameAsCreate ==
    [][EditFailStep =>
         /\ link_attempt + 1 < CREATE_MAX_RETRIES => SamePageAgain
         /\ SamePageAgain => lastSleep' = CreateBackoff(lastCall'.msg)
    ]_vars

\* C25 (amended): a page's edit_page call is attempted at most LINK_MAX_RETRIES = 3
\* times; after a failed attempt the session sleeps N+1 seconds when the message holds
\* both 'Flood control' and 'Retry in N' (as creation does), and otherwise the linking
\* delay of 1 second when attempts remain and nothing after the last attempt; the same
\* page is tried again exactly when fewer than three attempts were made.
C25_LinkRetryPolicy ==
    [][EditFailStep =>
         LET msg == lastCall'.msg
             hinted == HasFloodControl(msg) /\ RetryInMatch(msg) # NoMatch
         IN  /\ lastCall'.part = link_idx
             /\ link_attempt < 3
             /\ SamePageAgain <=> link_attempt + 1 < 3
             /\ hinted => lastSleep' = (RetryInMatch(msg) + 1) * 1000
                          /\ lastSleep' = CreateBackoff(msg)
             /\ ~hinted => lastSleep' = IF link_attempt + 1 < 3 THEN 1000 ELSE 0
    ]_vars

\* C25 witness: the first edit of page 1 failed with a message without hint, the session
\* slept one second, and the second attempt is due
C25_Witness ==
    /\ pc = "linking"
    /\ link_idx = 1
    /\ link_attempt = 1
    /\ lastCall.op = "edit" /\ ~lastCall.ok /\ lastCall.msg = MsgOther
    /\ lastSleep = 1000

(***************************************************************************)
(* C26: a failed page creation in gallery publishing.                      *)
(***************************************************************************)
IsGallery(d) == \E n \in GallerySizes : d = Gallery(n, Title2)

\* C26: when a gallery publish is aborted by a failing page creation, the creation had
\* been attempted CREATE_MAX_RETRIES times, and the error reports the number of pages
\* created and the URL of the first of them.
C26_GalleryCreateRetried ==
    pc = "idle" /\ IsGallery(last.doc) /\ last.ret.kind = "RuntimeError" =>
        /\ last.ret.attempts = CREATE_MAX_RETRIES
        /\ last.creates = Len(pages_info) + CREATE_MAX_RETRIES
        /\ last.ret.published = Len(pages_info)
        /\ last.ret.first = IF pages_info # <<>> THEN pages_info[1].url ELSE NoUrl

(***************************************************************************)
(* C27: the previous and next links of a page.                             *)
(***************************************************************************)
\* the targets of the links of one kind ("prev" or "next") in a content
LinkTargets(content, kind) ==
    {content[k].href : k \in {j \in 1..Len(content) : content[j].tag = kind}}
LinkCount(content, kind) == Cardinality({j \in 1..Len(content) : content[j].tag = kind})

\* C27: every edit_page call of the linking pass over n >= 2 pages, for page i, holds a
\* previous-link exactly when i > 1, pointing at the URL the creation of page i-1
\* returned, and a next-link exactly when i < n, pointing at the URL the creation of
\* page i+1 returned.
C27_PrevNextLinks ==
    lastCall.op = "edit" =>
        LET i == lastCall.part
            n == Len(pages_info)
        IN  /\ n >= 2 /\ i \in 1..n
            /\ \A k \in 1..n : pages_info[k].url = Url(pages_info[k].path)
            /\ \A j, k \in 1..n : pages_info[j].url = pages_info[k].url => j = k
            /\ LinkCount(lastCall.content, "prev") = IF i > 1 THEN 1 ELSE 0
            /\ LinkCount(lastCall.content, "next") = IF i < n THEN 1 ELSE 0
            /\ i > 1 => LinkTargets(lastCall.content, "prev") = {pages_info[i - 1].url}
            /\ i < n => LinkTargets(lastCall.content, "next") = {pages_info[i + 1].url}

\* C27 witness: the edit of the middle page of three holds both links, the edit of the
\* first page had none to a previous page
C27_Witness ==
    /\ lastCall.op = "edit" /\ lastCall.part = 2
    /\ Len(pages_info) = 3
    /\ LinkTargets(lastCall.content, "prev") = {pages_info[1].url}
    /\ LinkTargets(lastCall.content, "next") = {pages_info[3].url}
    /\ LinkTargets(LinkedContent(pages_info, 1), "prev") = {}

(***************************************************************************)
(* C28: linking leaves the page records alone.                             *)
(***************************************************************************)
\* C28: no step of the linking pass changes a page record (path, url, title, content):
\* the records stay what the creation pass saved, and every edit_page call for page i,
\* first attempt or retry, sends the path and title of the record and its saved content
\* followed by one separator and the navigation of page i, so the content sent holds the
\* navigation block once.
C28_LinkingKeepsRecords ==
    [][pc = "linking" =>
         /\ pages_info' = pages_info
         /\ \A k \in 1..Len(pages_info) :
               /\ pages_info[k].content = convert(chunks[k])
               /\ pages_info[k].title = PageTitle(doc.title, k, Len(chunks))
               /\ pages_info[k].url = Url(pages_info[k].path)
         /\ RemoteCallStep =>
               /\ lastCall'.op = "edit"
               /\ lastCall'.part = link_idx
               /\ lastCall'.path = pages_info[link_idx].path
               /\ lastCall'.title = pages_info[link_idx].title
               /\ lastCall'.content = convert(chunks[link_idx]) \o <<Node("hr", NoUrl, 0, <<>>)>>
                                         \o NavNodes(pages_info, link_idx)
               /\ LinkCount(lastCall'.content, "hr") = 1
               /\ LinkCount(lastCall'.content, "index") = 1
    ]_vars

\* C28 witness: the third attempt for page 1 is due after two failed edits, and the
\* record of page 1 still holds the saved content, without navigation
C28_Witness ==
    /\ pc = "linking"
    /\ link_idx = 1
    /\ link_attempt = 2
    /\ lastCall.op = "edit" /\ ~lastCall.ok
    /\ LinkCount(lastCall.content, "hr") = 1
    /\ pages_info[1].content = convert(chunks[1])
    /\ LinkCount(pages_info[1].content, "hr") = 0

(***************************************************************************)
(* C29: the chunks of a long text.                                         *)
(***************************************************************************)
\* the characters of the first k strings of a sequence
RECURSIVE PrefixLen(_, _)
PrefixLen(seq, k) == IF k = 0 THEN 0 ELSE StrLen(seq[k]) + PrefixLen(seq, k - 1)

\* the line of the text that holds the character after position p
LineAt(lines, p) ==
    CHOOSE m \in 1..Len(lines) : PrefixLen(lines, m - 1) <= p /\ p < PrefixLen(lines, m)

\* C29: for a text longer than SAFE_CHUNK_SIZE every chunk is non-empty and at most
\* SAFE_CHUNK_SIZE long; the chunks in order make up the text; a boundary between two
\* chunks lies inside a line only when that line is longer than SAFE_CHUNK_SIZE; and at
\* every boundary the chunk that was closed together with the next line (what is left
\* of the line, for a boundary inside one) would have exceeded SAFE_CHUNK_SIZE.
C29_ChunkInvariants ==
    (pc = "split" /\ StrLen(doc.content) > SAFE_CHUNK_SIZE) =>
        LET lines == splitlines(doc.content) IN
        /\ \A k \in 1..Len(chunks) :
              StrLen(chunks[k]) >= 1 /\ StrLen(chunks[k]) <= SAFE_CHUNK_SIZE
        /\ StrJoin(chunks) = doc.content
        /\ \A k \in 1..(Len(chunks) - 1) :
              LET p == PrefixLen(chunks, k)
                  m == LineAt(lines, p)
              IN  /\ p > PrefixLen(lines, m - 1) => StrLen(lines[m]) > SAFE_CHUNK_SIZE
                  /\ StrLen(chunks[k]) + (PrefixLen(lines, m) - p) > SAFE_CHUNK_SIZE

\* C29 witness: a line of 5000 characters, a line of 20002 and a third line: the first
\* line is a chunk, the long line is cut into two chunks of 10000, and what is left of
\* it shares the last chunk with the third line
C29_Witness ==
    /\ pc = "split"
    /\ Len(splitlines(doc.content)) = 3
    /\ StrLen(splitlines(doc.content)[2]) = 20002
    /\ Len(chunks) = 4
    /\ StrLen(chunks[1]) = 5000
    /\ StrLen(chunks[2]) = SAFE_CHUNK_SIZE /\ StrLen(chunks[3]) = SAFE_CHUNK_SIZE
    /\ StrLen(chunks[4]) = 5002

(***************************************************************************)
(* C30: a line longer than the chunk size.                                 *)
(***************************************************************************)
\* the chunk that starts at position p of the text, if there is one
ChunksAt(p) == {k \in 1..Len(chunks) : PrefixLen(chunks, k - 1) = p}

C31_BackoffSleeps ==
    LET d == retry_loop.retry_delay
        m == retry_loop.max_retry_delay
        r == retry_loop.retries
        sleeps == retry_loop.sleeps
    IN  /\ \A k \in 1..Len(sleeps) :
              LET cur == d * 2^(k - 1) IN
              /\ sleeps[k] >= Min(cur, m)
              /\ sleeps[k] <= Min(cur + cur \div 10, m)
              /\ sleeps[k] <= m
        /\ retry_loop.pc = "trying" =>
              /\ retry_loop.calls = Len(sleeps)
              /\ retry_loop.attempt = Len(sleeps)
              /\ retry_loop.delay = d * 2^Len(sleeps)
              /\ Len(sleeps) <= r - 1
        /\ retry_loop.pc = "returned" => retry_loop.calls = Len(sleeps) + 1
        /\ retry_loop.pc = "raised" =>
              /\ retry_loop.calls = r
              /\ Len(sleeps) = r - 1

\* C31 witness: four attempts failed with d = 1 s and m = 3 s: three sleeps, the second
\* with jitter, the third cut to the cap, none after the last attempt
C31_Witness ==
    /\ retry_loop.pc = "raised"
    /\ retry_loop.retries = 4
    /\ retry_loop.retry_delay = 1000 /\ retry_loop.max_retry_delay = 3000
    /\ retry_loop.sleeps = <<1000, 2200, 3000>>

(***************************************************************************)
(* C32: errors of the compression and of the size check.                   *)
(***************************************************************************)
\* C32: when compress_image_to_size raises ConversionError, or when auto_compress is off
\* and the file is over MAX_IMAGE_SIZE, upload raises that error (ConversionError,
\* ValidationError) without any call of the remote upload; a batch reports it as the
\* error of the item.
C32_CompressionErrorsSurface ==
    /\ \A r \in 1..MaxRetries : \A env \in UploadEnvs(r) :
          env.exists =>
              /\ compress_image_to_size(EnvImage(env), MAX_IMAGE_SIZE).kind = "raise" =>
                    LET up == upload(1, r, TRUE, env) IN
                    up.kind = "raise" /\ up.exc = "ConversionError" /\ up.remote = 0
              /\ env.size > MAX_IMAGE_SIZE =>
                    LET up == upload(1, r, FALSE, env) IN
                    up.kind = "raise" /\ up.exc = "ValidationError" /\ up.remote = 0
    /\ \A t \in Done : \A env \in UploadEnvs(retries) :
          (RanWith(t, env) /\ ~auto_compress /\ env.exists /\ env.size > MAX_IMAGE_SIZE) =>
              ResultOf(t).error.text = "Image file too large"

(***************************************************************************)
(* C33: who updates the batch result.                                      *)
(***************************************************************************)
\* the step is taken by a worker thread: a task starts or ends
WorkerStep == \E t \in 1..nPaths : task'[t].st # task[t].st

\* C33: in upload_batch a step of a worker thread leaves results, successful, failed,
\* completed and should_stop as they are; they change only in a step of the calling
\* thread that takes one completed task and adds exactly its result. So with up to
\* max_workers tasks running at once, len(results) = completed = successful + failed at
\* every moment, and every task the calling thread has processed has its result listed.
C33_OnlyCallerUpdates ==
    /\ [](/\ Cardinality(Running) <= workers
          /\ Len(Results) = completed
          /\ batch_result.successful + batch_result.failed = completed
          /\ completed <= Cardinality(yielded)
          /\ yielded \subseteq Done)
    /\ [][bpc = "running" =>
            /\ WorkerStep =>
                  /\ batch_result' = batch_result
                  /\ completed' = completed
                  /\ should_stop' = should_stop
                  /\ yielded' = yielded
            /\ (batch_result' # batch_result \/ completed' # completed) =>
                  /\ task' = task
                  /\ \E t \in Done \ yielded :
                        /\ yielded' = yielded \cup {t}
                        /\ batch_result' = Tally(batch_result, ResultOf(t))
                        /\ completed' = completed + 1
      ]_vars

\* C33 witness: with two workers, the result of task 1 has been added by the calling
\* thread while tasks 2 and 3 are running
C33_Witness ==
    /\ bpc = "running"
    /\ workers = 2
    /\ Running = {2, 3}
    /\ yielded = {1}
    /\ completed = 1
    /\ Len(Results) = 1 /\ Results[1].path = 1

(***************************************************************************)
(* C34: when the cache entry is written.                                   *)
(***************************************************************************)
\* the publishes so far that created all their pages and returned
CompletedFor(key) ==
    {k \in 1..Len(hist) : /\ hist[k].kind = "url"
                          /\ KeyOf(hist[k].doc) = key
                          /\ hist[k].creates >= Len(split_chunks(hist[k].doc.content))}

\* C34: while a publish is creating or linking its pages, neither the table in memory
\* nor the cache file holds its fingerprint; a publish aborted in creation leaves none;
\* a publish that returned after creating its pages has stored the URL of its first
\* page; and every entry of the table or the file that the session wrote belongs to a
\* publish that created all its pages and returned, and holds the URL it returned
\* (with dedup off nothing is written at all).
C34_CacheAfterLinking ==
    /\ (pc \in {"creating", "linking"} /\ content_key # NoKey) =>
          /\ ~InTable(cache, content_key)
          /\ cacheFile.state = "ok" => ~InTable(cacheFile.table, content_key)
    /\ (Ended /\ last.ret.kind = "RuntimeError") =>
          /\ ~InTable(cache, KeyOf(last.doc))
          /\ (skip_duplicate /\ cacheFile.state = "ok") =>
                ~InTable(cacheFile.table, KeyOf(last.doc))
    /\ (Published /\ skip_duplicate) =>
          /\ Len(pages_info) = LastPages
          /\ InTable(cache, KeyOf(last.doc))
          /\ Lookup(cache, KeyOf(last.doc)) = pages_info[1].url
          /\ last.ret.url = pages_info[1].url
    /\ \A e \in cache \cup cacheFile.table :
          e # OldEntry =>
              \E k \in CompletedFor(e.key) : hist[k].url = e.url /\ hist[k].creates > 0
    /\ ~skip_duplicate => cache = {}

\* C34 witness: a three-page publish ended and its first URL is in the table and in
\* the file; the publish before it was aborted and left no entry
C34_Witness ==
    /\ Published /\ skip_duplicate
    /\ LastPages = 3
    /\ Len(hist) = 2
    /\ hist[1].kind = "RuntimeError"
    /\ ~InTable(cache, KeyOf(hist[1].doc))
    /\ Lookup(cache, KeyOf(last.doc)) = pages_info[1].url
    /\ cacheFile = FileOf(cache)
    /\ last.linked = {1, 2, 3}

(***************************************************************************)
(* C35: when two sessions that loaded the same cache file have published   *)
(* different documents concurrently, the cache file equals the in-memory   *)
(* table of the session whose save ended last, and every entry of the file *)
(* maps a fingerprint to a URL that a completed publish returned.          *)
(***************************************************************************)
PeersEnded == \A i \in PeerIds : peers.s # <<>> /\ peers.s[i].pc \in {"done", "raised"}

PeersDiffer == peers.s[1].doc # peers.s[2].doc

LastSaver == peers.saved[Len(peers.saved)]

\* the URL is one a completed publish of the document of this fingerprint returned
ReturnedByPublish(e) ==
    \/ e = OldEntry
    \/ \E i \in PeerIds :
          /\ peers.s[i].pc \in {"saving", "writing", "done"}
          /\ e.key = ContentKey(peers.s[i].doc, TRUE)
          /\ e.url = peers.s[i].url

C35_LastWriterWins ==
    /\ (PeersEnded /\ PeersDiffer /\ peers.saved # <<>>)
          => peers.file = FileOf(peers.s[LastSaver].table)
    /\ peers.s # <<>> => \A e \in peers.file.table : ReturnedByPublish(e)

\* the part on the entries alone, which no timing of the saves breaks
C35_EntriesAreReturnedUrls ==
    peers.s # <<>> => \A e \in peers.file.table : ReturnedByPublish(e)

\* both sessions published a new document and saved; the session that saved last
\* does not know the other's entry
C35_Witness ==
    /\ PeersEnded /\ PeersDiffer
    /\ Len(peers.saved) = 2
    /\ peers.file = FileOf(peers.s[LastSaver].table)
    /\ \E e \in peers.s[3 - LastSaver].table : e \notin peers.file.table

(***************************************************************************)
(* C36: a text publish issues a bounded number of remote calls however     *)
(* often the service fails: at most 5 create_page calls for each chunk and *)
(* at most 3 edit_page calls for each page, hence at most 5n creates and   *)
(* 3n edits for n chunks, and no page is edited successfully twice.        *)
(***************************************************************************)
ChunkCount(d) == Len(split_chunks(d.content))

C36_BoundedRemoteCalls ==
    /\ pc = "creating" =>
          /\ attempt < CREATE_MAX_RETRIES
          /\ nCreate <= CREATE_MAX_RETRIES * (idx - 1) + attempt
          /\ nEdit = 0
    /\ pc = "linking" =>
          /\ link_attempt < LINK_MAX_RETRIES
          /\ nCreate <= CREATE_MAX_RETRIES * Len(chunks)
          /\ nEdit <= LINK_MAX_RETRIES * (link_idx - 1) + link_attempt
          \* the pages edited with success lie behind the page now being edited
          /\ editDone \subseteq 1..(link_idx - 1)
          /\ (lastCall.op = "edit" /\ lastCall.ok) => lastCall.part = link_idx - 1
    /\ \A k \in 1..Len(hist) : hist[k].creates <= CREATE_MAX_RETRIES * ChunkCount(hist[k].doc)
    /\ last.creates <= CREATE_MAX_RETRIES * ChunkCount(last.doc)
    /\ last.edits <= LINK_MAX_RETRIES * ChunkCount(last.doc)
    /\ last.linked \subseteq 1..ChunkCount(last.doc)

\* the service failed every call of a publish: it ended after 5 creates of its one chunk
C36_Witness ==
    /\ last.ret.kind = "RuntimeError"
    /\ ChunkCount(last.doc) = 1
    /\ last.creates = CREATE_MAX_RETRIES
    /\ pc = "idle"

(***************************************************************************)
(* C37: in one session with dedup enabled an entry of the table, once      *)
(* present, is never removed and its URL never changes; an entry is        *)
(* written only for a fingerprint absent from the table, so there is at    *)
(* most one entry for a fingerprint and it holds the URL of the first      *)
(* successful publish of that fingerprint in the session.                  *)
(***************************************************************************)
HasEntry(table, key) == \E e \in table : e.key = key

\* publish k of the session created pages and returned their first URL
PublishedAt(k) == hist[k].kind = "url" /\ hist[k].creates > 0

FirstPublishedAt(k) ==
    /\ PublishedAt(k)
    /\ \A j \in 1..(k - 1) : PublishedAt(j) => KeyOf(hist[j].doc) # KeyOf(hist[k].doc)

C37_EntriesAreStable ==
    /\ [](skip_duplicate =>
            /\ \A e, f \in cache : e.key = f.key => e = f
            /\ \A k \in 1..Len(hist) :
                  FirstPublishedAt(k) =>
                     [key |-> KeyOf(hist[k].doc), url |-> hist[k].url] \in cache)
    /\ [][skip_duplicate =>
            /\ cache \subseteq cache'
            /\ cache' # cache =>
                  /\ ~HasEntry(cache, content_key)
                  /\ \E url \in {pages_info'[1].url} :
                        cache' = cache \cup {[key |-> content_key, url |-> url]}]_vars

\* the document of a cached entry was published again after another publish, and the
\* table is as it was
C37_Witness ==
    /\ skip_duplicate
    /\ Len(hist) = 2
    /\ PublishedAt(1)
    /\ hist[2].doc = hist[1].doc
    /\ hist[2].kind = "url" /\ hist[2].creates = 0
    /\ hist[2].url = hist[1].url
    /\ OldEntry \in cache
    /\ Cardinality(cache) = 2

(***************************************************************************)
(* C38: the fingerprint depends on the concatenation content + title       *)
(* alone. Two documents that differ as pairs (content, title) and are      *)
(* equal as concatenations have one fingerprint and share one cache entry: *)
(* with dedup enabled, a publish of the second after a publish of the      *)
(* first returns the first's URL and creates no page.                      *)
(***************************************************************************)
Joined(d) == StrCat(d.content, d.title)

C38_FingerprintOfConcatenation ==
    /\ \A d, e \in JoinedDocs :
          (ContentKey(d, TRUE) = ContentKey(e, TRUE)) <=> (Joined(d) = Joined(e))
    /\ skip_duplicate =>
          \A a, b \in 1..Len(hist) :
             (/\ a < b
              /\ hist[a].doc # hist[b].doc
              /\ Joined(hist[a].doc) = Joined(hist[b].doc)
              /\ hist[a].kind = "url" /\ hist[a].creates > 0)
             => /\ hist[b].kind = "url"
                /\ hist[b].url = hist[a].url
                /\ hist[b].creates = 0
                /\ Cardinality({e \in cache : e.key = ContentKey(hist[a].doc, TRUE)}) = 1

\* the content ending in "t" under the title "t" was published, then the same content
\* without its last "t" under the title "tt": answered with the first URL, no page created
C38_Witness ==
    /\ skip_duplicate
    /\ Len(hist) = 2
    /\ hist[1].doc = DocTail /\ hist[1].kind = "url" /\ hist[1].creates = 1
    /\ hist[2].doc = DocHead /\ hist[2].kind = "url" /\ hist[2].creates = 0
    /\ hist[2].url = hist[1].url
    /\ nextPage = 2

(***************************************************************************)
(* C39: for every non-empty text, texts with lines longer than the chunk   *)
(* size included, the chunker gives no empty chunk and the chunks joined   *)
(* in order are the text: cutting an over-long line drops no character and *)
(* repeats none.                                                           *)
(***************************************************************************)
LongLines(t) == {m \in 1..Len(splitlines(t)) : StrLen(splitlines(t)[m]) > SAFE_CHUNK_SIZE}

C39_NoCharacterLostOrRepeated ==
    (pc = "split" /\ StrLen(doc.content) >= 1) =>
        /\ chunks # <<>>
        /\ \A k \in 1..Len(chunks) : chunks[k] # <<>> /\ StrLen(chunks[k]) >= 1
        /\ PrefixLen(chunks, Len(chunks)) = StrLen(doc.content)
        /\ StrJoin(chunks) = doc.content
        \* chunk k is the text from where chunk k-1 ended
        /\ \A k \in 1..Len(chunks) :
              chunks[k] = StrTake(StrDrop(doc.content, PrefixLen(chunks, k - 1)),
                                  StrLen(chunks[k]))

\* two over-long lines in one text, a shorter line between them
C39_Witness ==
    /\ pc = "split"
    /\ LongLines(doc.content) = {1, 3}
    /\ StrLen(splitlines(doc.content)[2]) = 3000
    /\ Len(chunks) >= 5
    /\ StrJoin(chunks) = doc.content

(***************************************************************************)
(* C40: a text publish whose pages were all created and some or all of     *)
(* whose link edits failed still returns the URL of its first page and     *)
(* stores its fingerprint; with dedup enabled a later publish of the same  *)
(* content and title is answered with that URL from the table, with no     *)
(* remote call: the failed linking is not tried again.                     *)
(***************************************************************************)
LinksFailed == Published /\ last.failed_links # <<>>

\* the step starts a publish of the document of the publish that has just ended
SameDocAgain ==
    /\ pc = "idle"
    /\ \/ pc' = "creating" /\ doc' = last.doc
       \/ Len(hist') = Len(hist) + 1 /\ hist'[Len(hist')].doc = last.doc

=============================================================================
